---- MODULE Spec2Model ----
(***************************************************************************)
(* A model of the analytics engine of the process analytics dashboard:     *)
(* KPICalculator, ProcessAnalytics and AnalyticsService                    *)
(* (src/unnamed/part_005).                                                 *)
(*                                                                         *)
(* Numbers.  A JavaScript number is modelled as a pair <<n, d>> of         *)
(* integers: <<n, d>> with d > 0 is the rational n/d in lowest terms,      *)
(* <<0, 0>> is NaN, <<1, 0>> is Infinity and <<-1, 0>> is -Infinity.       *)
(* Arithmetic is exact (no rounding to 53 bits); division by zero, 0/0     *)
(* and the propagation of NaN follow IEEE-754 as in the source language,   *)
(* except that -0 is not distinguished from 0.  A value of the form        *)
(* s * sqrt(q) is a pair <<s, q>> ("root"), and base + s * sqrt(q) is a    *)
(* record [base, root] ("surd"); they are compared exactly, by squaring.   *)
(***************************************************************************)
EXTENDS Integers, Sequences, FiniteSets, TLC

VARIABLES
  data,      \* the record list handed to the operation
  config,    \* field roles and the other arguments of the call
  options,   \* the options the engine was constructed with
  xs, ys,    \* the numeric arrays handed to calculateLinearRegression
  engine,    \* the algorithm of Array.prototype.sort in the running engine
  earlier,   \* the results of the generateDashboardAnalytics calls so far,
             \* where calls are repeated
  call,      \* the operation that has run ("none" before any)
  ret,       \* what the operation returned
  processing, \* the processFile calls made, each awaiting the parser or settled
  log,       \* the callbacks of the caller invoked so far, in order
  provider   \* the state of the DashboardProvider ("none" where none is mounted)

vars == <<data, config, options, xs, ys, engine, earlier, call, ret,
          processing, log, provider>>

(***************************************************************************)
(* Exact arithmetic on JavaScript numbers                                  *)
(***************************************************************************)
Abs(a) == IF a < 0 THEN -a ELSE a

Sign(a) == IF a < 0 THEN -1 ELSE IF a > 0 THEN 1 ELSE 0

RECURSIVE GCD(_, _)
GCD(a, b) == IF b = 0 THEN a ELSE GCD(b, a % b)

\* n/d in lowest terms, d # 0
Rat(n, d) ==
  LET g == GCD(Abs(n), Abs(d))
  IN  IF d < 0 THEN <<(-n) \div g, (-d) \div g>> ELSE <<n \div g, d \div g>>

Num(n) == <<n, 1>>

NaN == <<0, 0>>

Infinity == <<1, 0>>

IsNaN(x) == x = NaN

IsFinite(x) == x[2] > 0

Neg(x) == <<-x[1], x[2]>>

NAbs(x) == <<Abs(x[1]), x[2]>>

\* x + y
Add(x, y) ==
  IF IsNaN(x) \/ IsNaN(y) THEN NaN
  ELSE IF ~IsFinite(x) /\ ~IsFinite(y) THEN (IF x = y THEN x ELSE NaN)
  ELSE IF ~IsFinite(x) THEN x
  ELSE IF ~IsFinite(y) THEN y
  ELSE LET g == GCD(x[2], y[2])
       IN  Rat(x[1] * (y[2] \div g) + y[1] * (x[2] \div g), (x[2] \div g) * y[2])

\* x - y
Sub(x, y) == Add(x, Neg(y))

\* x * y
Mul(x, y) ==
  IF IsNaN(x) \/ IsNaN(y) THEN NaN
  ELSE IF ~IsFinite(x) \/ ~IsFinite(y)
       THEN (IF x[1] = 0 \/ y[1] = 0 THEN NaN ELSE <<Sign(x[1]) * Sign(y[1]), 0>>)
  ELSE LET g1 == GCD(Abs(x[1]), y[2])
           g2 == GCD(Abs(y[1]), x[2])
       IN  <<(x[1] \div g1) * (y[1] \div g2), (x[2] \div g2) * (y[2] \div g1)>>

\* x / y; a zero divisor is +0
Div(x, y) ==
  IF IsNaN(x) \/ IsNaN(y) THEN NaN
  ELSE IF ~IsFinite(y) THEN (IF IsFinite(x) THEN Num(0) ELSE NaN)
  ELSE IF ~IsFinite(x) THEN (IF y[1] < 0 THEN Neg(x) ELSE x)
  ELSE IF y[1] = 0 THEN (IF x[1] = 0 THEN NaN ELSE <<Sign(x[1]), 0>>)
  ELSE Mul(x, Rat(y[2], y[1]))

\* x < y; any comparison with NaN is false
Lt(x, y) ==
  IF IsNaN(x) \/ IsNaN(y) THEN FALSE
  ELSE IF ~IsFinite(x) \/ ~IsFinite(y)
       THEN (IF x = y THEN FALSE
             ELSE IF ~IsFinite(x) THEN x[1] < 0 ELSE y[1] > 0)
  ELSE LET g == GCD(x[2], y[2])
       IN  x[1] * (y[2] \div g) < y[1] * (x[2] \div g)

\* x <= y
Le(x, y) == ~IsNaN(x) /\ ~IsNaN(y) /\ ~Lt(y, x)

\* x > y
Gt(x, y) == Lt(y, x)

\* x >= y
Ge(x, y) == Le(y, x)

(***************************************************************************)
(* Roots and surds: s * sqrt(q) and base + s * sqrt(q), compared exactly.  *)
(* A root <<s, q>> has s in {-1, 0, 1} and q > 0, or is <<0, 0/1>>, or is  *)
(* NaNRoot.                                                                *)
(***************************************************************************)
NaNRoot == <<0, NaN>>

ZeroRoot == <<0, Num(0)>>

RootIsNaN(u) == IsNaN(u[2])

\* Math.sqrt(q)
Sqrt(q) ==
  IF IsNaN(q) \/ q[1] < 0 THEN NaNRoot
  ELSE IF q[1] = 0 THEN ZeroRoot ELSE <<1, q>>

\* the number r as a root: sign(r) * sqrt(r * r)
RootOf(r) == IF IsNaN(r) THEN NaNRoot ELSE <<Sign(r[1]), Mul(r, r)>>

\* u * v and u / v for roots
RootMul(u, v) ==
  LET q == Mul(u[2], v[2])
  IN  IF IsNaN(q) THEN NaNRoot ELSE <<u[1] * v[1], q>>

RootDiv(u, v) ==
  LET q == Div(u[2], v[2])
  IN  IF IsNaN(q) THEN NaNRoot
      ELSE IF q[1] = 0 THEN ZeroRoot
      ELSE <<u[1] * (IF v[1] = 0 THEN 1 ELSE v[1]), q>>

RootNeg(u) == <<-u[1], u[2]>>

\* the sign of a*a*b - c*d*d for naturals a, c and positive b, d, with the
\* common factors removed before multiplying
SquareCmp(a, b, c, d) ==
  IF a = 0 THEN -Sign(c)
  ELSE IF c = 0 THEN 1
  ELSE LET g1 == GCD(b, d)
           b1 == b \div g1
           d1 == d \div g1
           g2 == GCD(b1, d)
           b2 == b1 \div g2
           d2 == d \div g2
           g3 == GCD(a, c)
           a1 == a \div g3
           c1 == c \div g3
           g4 == GCD(a, c1)
           a2 == a \div g4
           c2 == c1 \div g4
       IN  Sign(a1 * a2 * b2 - c2 * d1 * d2)

\* the sign of r * r - q for finite numbers r and q >= 0
SqCmp(r, q) == SquareCmp(Abs(r[1]), q[2], q[1], r[2])

\* u <= r and r <= u for a root u and a number r, both finite
RootLeNum(u, r) ==
  CASE u[1] = 0 -> r[1] >= 0
    [] u[1] = 1 -> r[1] > 0 /\ SqCmp(r, u[2]) >= 0
    [] u[1] = -1 -> r[1] >= 0 \/ SqCmp(r, u[2]) <= 0

NumLeRoot(r, u) ==
  CASE u[1] = 0 -> r[1] <= 0
    [] u[1] = 1 -> r[1] <= 0 \/ SqCmp(r, u[2]) <= 0
    [] u[1] = -1 -> r[1] < 0 /\ SqCmp(r, u[2]) >= 0

\* base + root
Surd(base, root) == [base |-> base, root |-> root]

Exact(r) == Surd(r, ZeroRoot)

SurdIsNaN(v) == IsNaN(v.base) \/ RootIsNaN(v.root)

\* v <= r and r <= v for a surd v and a number r, all finite
SurdLeNum(v, r) ==
  ~SurdIsNaN(v) /\ ~IsNaN(r) /\ RootLeNum(v.root, Sub(r, v.base))

NumLeSurd(r, v) ==
  ~SurdIsNaN(v) /\ ~IsNaN(r) /\ NumLeRoot(Sub(r, v.base), v.root)

\* Math.max(r, v) and Math.min(r, v) for a number r and a surd v
MaxNumSurd(r, v) ==
  IF SurdIsNaN(v) \/ IsNaN(r) THEN Exact(NaN)
  ELSE IF SurdLeNum(v, r) THEN Exact(r) ELSE v

MinNumSurd(r, v) ==
  IF SurdIsNaN(v) \/ IsNaN(r) THEN Exact(NaN)
  ELSE IF NumLeSurd(r, v) THEN Exact(r) ELSE v

(***************************************************************************)
(* Sequences                                                               *)
(***************************************************************************)
\* the elements of s that satisfy Test, in order: Array.prototype.filter
Filter(s, Test(_)) == SelectSeq(s, Test)

\* Array.prototype.map
Map(s, F(_)) == [i \in 1..Len(s) |-> F(s[i])]

RECURSIVE Sum(_)
Sum(s) == IF s = <<>> THEN Num(0) ELSE Add(Sum(SubSeq(s, 1, Len(s) - 1)), s[Len(s)])

\* the sum over i of (x[i] - xMean) * (y[i] - yMean)
SumOfProducts(x, xMean, y, yMean) ==
  Sum([i \in 1..Len(x) |-> Mul(Sub(x[i], xMean), Sub(y[i], yMean))])

(***************************************************************************)
(* JavaScript values.  A string is a sequence of one-character strings.    *)
(***************************************************************************)
JSValue(t, b, n, s) == [t |-> t, b |-> b, n |-> n, s |-> s]

Undefined == JSValue("undefined", FALSE, NaN, <<>>)

Null == JSValue("null", FALSE, NaN, <<>>)

Bool(b) == JSValue("boolean", b, NaN, <<>>)

JSNum(x) == JSValue("number", FALSE, x, <<>>)

Str(s) == JSValue("string", FALSE, NaN, s)

\* item[field]: undefined for a field the record does not have
Get(item, field) == IF field \in DOMAIN item THEN item[field] ELSE Undefined

\* typeof v
TypeOf(v) == IF v.t = "null" THEN "object" ELSE v.t

\* Boolean(v)
BooleanOf(v) ==
  CASE v.t = "boolean" -> v.b
    [] v.t = "number" -> ~IsNaN(v.n) /\ v.n[1] # 0
    [] v.t = "string" -> v.s # <<>>
    [] OTHER -> FALSE

\* a || b
Or(a, b) == IF BooleanOf(a) THEN a ELSE b

Digits == <<"0", "1", "2", "3", "4", "5", "6", "7", "8", "9">>

IsDigit(c) == \E i \in 1..10 : Digits[i] = c

DigitValue(c) == (CHOOSE i \in 1..10 : Digits[i] = c) - 1

RECURSIVE DigitsValue(_)
DigitsValue(s) ==
  IF s = <<>> THEN 0
  ELSE 10 * DigitsValue(SubSeq(s, 1, Len(s) - 1)) + DigitValue(s[Len(s)])

RECURSIVE Trim(_)
Trim(s) ==
  IF s = <<>> THEN s
  ELSE IF s[1] = " " THEN Trim(Tail(s))
  ELSE IF s[Len(s)] = " " THEN Trim(SubSeq(s, 1, Len(s) - 1))
  ELSE s

\* the value of a string as a numeric literal: blank is 0, an optionally
\* signed run of decimal digits is its value, anything else over the
\* model's alphabet (letters, digits, blanks, signs) is NaN
StringToNumber(s) ==
  LET t == Trim(s)
      signed == t # <<>> /\ t[1] \in {"-", "+"}
      body == IF signed THEN Tail(t) ELSE t
  IN  IF t = <<>> THEN Num(0)
      ELSE IF body # <<>> /\ \A i \in 1..Len(body) : IsDigit(body[i])
           THEN (IF t[1] = "-" THEN Num(-DigitsValue(body)) ELSE Num(DigitsValue(body)))
      ELSE NaN

\* Number(v)
NumberOf(v) ==
  CASE v.t = "undefined" -> NaN
    [] v.t = "null" -> Num(0)
    [] v.t = "boolean" -> (IF v.b THEN Num(1) ELSE Num(0))
    [] v.t = "number" -> v.n
    [] v.t = "string" -> StringToNumber(v.s)

RECURSIVE NatToString(_)
NatToString(n) ==
  IF n < 10 THEN <<Digits[n + 1]>>
  ELSE NatToString(n \div 10) \o <<Digits[(n % 10) + 1]>>

\* String(x) for a number x that is an integer, NaN or infinite
NumberToString(x) ==
  CASE IsNaN(x) -> <<"N", "a", "N">>
    [] x = Infinity -> <<"I", "n", "f", "i", "n", "i", "t", "y">>
    [] x = Neg(Infinity) -> <<"-", "I", "n", "f", "i", "n", "i", "t", "y">>
    [] x[2] = 1 /\ x[1] >= 0 -> NatToString(x[1])
    [] x[2] = 1 /\ x[1] < 0 -> <<"-">> \o NatToString(-x[1])

\* String(v)
StringOf(v) ==
  CASE v.t = "undefined" -> <<"u", "n", "d", "e", "f", "i", "n", "e", "d">>
    [] v.t = "null" -> <<"n", "u", "l", "l">>
    [] v.t = "boolean" ->
         (IF v.b THEN <<"t", "r", "u", "e">> ELSE <<"f", "a", "l", "s", "e">>)
    [] v.t = "number" -> NumberToString(v.n)
    [] v.t = "string" -> v.s

Upper == <<"A", "B", "C", "D", "E", "F", "G", "H", "I", "J", "K", "L", "M",
           "N", "O", "P", "Q", "R", "S", "T", "U", "V", "W", "X", "Y", "Z">>

Lower == <<"a", "b", "c", "d", "e", "f", "g", "h", "i", "j", "k", "l", "m",
           "n", "o", "p", "q", "r", "s", "t", "u", "v", "w", "x", "y", "z">>

LowerChar(c) ==
  IF \E i \in 1..26 : Upper[i] = c
  THEN Lower[CHOOSE i \in 1..26 : Upper[i] = c]
  ELSE c

\* s.toLowerCase()
toLowerCase(s) == [i \in 1..Len(s) |-> LowerChar(s[i])]

\* a === b
StrictEquals(a, b) ==
  /\ a.t = b.t
  /\ CASE a.t = "boolean" -> a.b = b.b
       [] a.t = "number" -> ~IsNaN(a.n) /\ a.n = b.n
       [] a.t = "string" -> a.s = b.s
       [] OTHER -> TRUE

\* { ...defaults, ...given }: a key given with the value undefined overrides
Spread(defaults, given) ==
  [k \in DOMAIN defaults \cup DOMAIN given |->
     IF k \in DOMAIN given THEN given[k] ELSE defaults[k]]

\* [...s].sort(comparator) for a comparator that orders s by the strict weak
\* order Less; the sort is stable
SortBy(s, Less(_, _)) ==
  LET pos(i) == 1 + Cardinality({j \in 1..Len(s) :
                      Less(s[j], s[i]) \/ (~Less(s[i], s[j]) /\ j < i)})
  IN  [k \in 1..Len(s) |-> s[CHOOSE i \in 1..Len(s) : pos(i) = k]]

\* [...values].sort((a, b) => a - b) for numbers none of which is NaN
SortAscending(values) == SortBy(values, Lt)

\* Math.floor(n * num / den) for naturals
Floor(n, num, den) == (n * num) \div den

(***************************************************************************)
(* KPICalculator                                                           *)
(***************************************************************************)
KPICalculatorDefaults ==
  [confidenceLevel |-> JSNum(<<19, 20>>),
   outlierDetection |-> Bool(TRUE),
   outlierThreshold |-> JSNum(<<3, 2>>)]

\* new KPICalculator(options): this.options
KPICalculator(opts) == Spread(KPICalculatorDefaults, opts)

\* the z-score of the three tabulated confidence levels; for another level
\* the code goes through inverseNormalCDF, which is not modelled
getZScore(confidenceLevel) ==
  CASE confidenceLevel = <<9, 10>> -> <<329, 200>>
    [] confidenceLevel = <<19, 20>> -> <<49, 25>>
    [] confidenceLevel = <<99, 100>> -> <<322, 125>>

calculateMean(values) ==
  IF Len(values) = 0 THEN Num(0) ELSE Div(Sum(values), Num(Len(values)))

calculateMedian(values) ==
  IF Len(values) = 0 THEN Num(0)
  ELSE LET sortedValues == SortAscending(values)
           midIndex == Len(sortedValues) \div 2
       IN  IF Len(sortedValues) % 2 = 0
           THEN Div(Add(sortedValues[midIndex], sortedValues[midIndex + 1]), Num(2))
           ELSE sortedValues[midIndex + 1]

calculateVariance(values) ==
  IF Len(values) <= 1 THEN Num(0)
  ELSE LET mean == calculateMean(values)
           squaredDiffs == [i \in 1..Len(values) |->
                              Mul(Sub(values[i], mean), Sub(values[i], mean))]
       IN  Div(Sum(squaredDiffs), Num(Len(values) - 1))

calculateStandardDeviation(values) == Sqrt(calculateVariance(values))

\* without the guard for an empty sample
WilsonIntervalUnguarded(successes, total, confidenceLevel) ==
  LET proportion == Div(Num(successes), Num(total))
      z == getZScore(confidenceLevel)
      z2 == Mul(z, z)
      center == Div(Add(proportion, Div(z2, Num(2 * total))),
                    Add(Num(1), Div(z2, Num(total))))
      adjustment == RootDiv(RootMul(RootOf(z), Sqrt(Div(
                      Add(Mul(proportion, Sub(Num(1), proportion)),
                          Div(z2, Num(4 * total))), Num(total)))),
                      RootOf(Add(Num(1), Div(z2, Num(total)))))
  IN  <<MaxNumSurd(Num(0), Surd(center, RootNeg(adjustment))),
        MinNumSurd(Num(1), Surd(center, adjustment))>>

calculateWilsonInterval(successes, total, confidenceLevel) ==
  IF total = 0 THEN <<Exact(Num(0)), Exact(Num(0))>>
  ELSE LET proportion == Div(Num(successes), Num(total))
           z == getZScore(confidenceLevel)
           z2 == Mul(z, z)
           numerator == Add(proportion, Div(z2, Num(2 * total)))
           denominator == Add(Num(1), Div(z2, Num(total)))
           center == Div(numerator, denominator)
           adjustment == RootDiv(RootMul(RootOf(z), Sqrt(Div(
                           Add(Mul(proportion, Sub(Num(1), proportion)),
                               Div(z2, Num(4 * total))), Num(total)))),
                           RootOf(denominator))
       IN  <<MaxNumSurd(Num(0), Surd(center, RootNeg(adjustment))),
             MinNumSurd(Num(1), Surd(center, adjustment))>>

\* with a case-sensitive comparison of strings
IsSuccessCaseSensitive(value, successValue) ==
  IF TypeOf(successValue) = "boolean"
  THEN BooleanOf(value) = successValue.b
  ELSE IF TypeOf(successValue) = "string"
  THEN StringOf(value) = successValue.s
  ELSE StrictEquals(value, successValue)

\* the predicate of calculateRFT's filter
IsSuccess(value, successValue) ==
  IF TypeOf(successValue) = "boolean"
  THEN BooleanOf(value) = successValue.b
  ELSE IF TypeOf(successValue) = "string"
  THEN toLowerCase(StringOf(value)) = toLowerCase(successValue.s)
  ELSE StrictEquals(value, successValue)

calculateRFT(this, records, successField, successValue) ==
  LET totalCount == Len(records)
      isSuccess(item) == IsSuccess(Get(item, successField), successValue)
      successCount == Len(Filter(records, isSuccess))
      rftRate == IF totalCount > 0 THEN Div(Num(successCount), Num(totalCount))
                 ELSE Num(0)
      confidenceInterval ==
        calculateWilsonInterval(successCount, totalCount,
          Or(Get(this, "confidenceLevel"), JSNum(<<19, 20>>)).n)
  IN  [rate |-> rftRate,
       confidenceInterval |-> confidenceInterval,
       sampleSize |-> totalCount]

calculateConfidenceIntervalForMean(values, confidenceLevel) ==
  IF Len(values) = 0 THEN <<Exact(Num(0)), Exact(Num(0))>>
  ELSE LET mean == calculateMean(values)
           stdDev == calculateStandardDeviation(values)
           n == Len(values)
           z == getZScore(confidenceLevel)
           marginOfError == RootMul(RootOf(z), RootDiv(stdDev, Sqrt(Num(n))))
       IN  <<Surd(mean, RootNeg(marginOfError)), Surd(mean, marginOfError)>>

\* with the values on the bounds counted as outliers
detectOutliersInclusive(values, threshold) ==
  LET sortedValues == SortAscending(values)
      q1 == sortedValues[Floor(Len(sortedValues), 1, 4) + 1]
      q3 == sortedValues[Floor(Len(sortedValues), 3, 4) + 1]
      iqr == Sub(q3, q1)
      lowerBound == Sub(q1, Mul(threshold, iqr))
      upperBound == Add(q3, Mul(threshold, iqr))
      isOutlier(value) == Le(value, lowerBound) \/ Ge(value, upperBound)
      isClean(value) == ~isOutlier(value)
  IN  IF Len(values) = 0 THEN [cleanData |-> <<>>, outliers |-> <<>>]
      ELSE [cleanData |-> Filter(values, isClean),
            outliers |-> Filter(values, isOutlier)]

detectOutliers(values, threshold) ==
  IF Len(values) = 0 THEN [cleanData |-> <<>>, outliers |-> <<>>]
  ELSE LET sortedValues == SortAscending(values)
           q1Index == Floor(Len(sortedValues), 1, 4)
           q3Index == Floor(Len(sortedValues), 3, 4)
           q1 == sortedValues[q1Index + 1]
           q3 == sortedValues[q3Index + 1]
           iqr == Sub(q3, q1)
           lowerBound == Sub(q1, Mul(threshold, iqr))
           upperBound == Add(q3, Mul(threshold, iqr))
           isOutlier(value) == Lt(value, lowerBound) \/ Gt(value, upperBound)
           isClean(value) == ~isOutlier(value)
       IN  [cleanData |-> Filter(values, isClean),
            outliers |-> Filter(values, isOutlier)]

\* Math.min(...values) and Math.max(...values) for numbers none of which is NaN
MathMin(values) ==
  IF Len(values) = 0 THEN Infinity
  ELSE CHOOSE v \in {values[i] : i \in 1..Len(values)} :
         \A i \in 1..Len(values) : Le(v, values[i])

MathMax(values) ==
  IF Len(values) = 0 THEN Neg(Infinity)
  ELSE CHOOSE v \in {values[i] : i \in 1..Len(values)} :
         \A i \in 1..Len(values) : Ge(v, values[i])

NotNaN(value) == ~IsNaN(value)

\* records.map(item => Number(item[field])).filter(value => !isNaN(value))
NumericValues(records, field) ==
  LET number(item) == NumberOf(Get(item, field))
  IN  Filter(Map(records, number), NotNaN)

\* the statistics of the durations left after the outlier step
DurationResult(cleanedDurations, outliers, confidenceLevel, sampleSize) ==
  [average |-> calculateMean(cleanedDurations),
   median |-> calculateMedian(cleanedDurations),
   min |-> MathMin(cleanedDurations),
   max |-> MathMax(cleanedDurations),
   stdDev |-> calculateStandardDeviation(cleanedDurations),
   confidenceInterval |->
     calculateConfidenceIntervalForMean(cleanedDurations, confidenceLevel),
   outliers |-> outliers,
   sampleSize |-> sampleSize]

\* if (this.options.outlierDetection) the durations are replaced by
\* cleanData and the outliers are kept
DurationFromOutliers(detect, durations, result, confidenceLevel) ==
  DurationResult(IF detect THEN result.cleanData ELSE durations,
                 IF detect THEN result.outliers ELSE <<>>,
                 confidenceLevel, Len(durations))

\* calculateProcessDuration from the numeric durations of the records
DurationOf(this, durations) ==
  IF Len(durations) = 0
  THEN [average |-> Num(0), median |-> Num(0), min |-> Num(0), max |-> Num(0),
        stdDev |-> ZeroRoot,
        confidenceInterval |-> <<Exact(Num(0)), Exact(Num(0))>>,
        outliers |-> <<>>, sampleSize |-> 0]
  ELSE DurationFromOutliers(
         BooleanOf(Get(this, "outlierDetection")), durations,
         detectOutliers(durations,
           NumberOf(Or(Get(this, "outlierThreshold"), JSNum(<<3, 2>>)))),
         Or(Get(this, "confidenceLevel"), JSNum(<<19, 20>>)).n)

\* KPICalculator.calculateProcessDuration
calculateProcessDuration(this, records, durationField) ==
  DurationOf(this, NumericValues(records, durationField))

(***************************************************************************)
(* ProcessAnalytics                                                        *)
(***************************************************************************)
ProcessAnalyticsDefaults ==
  [confidenceLevel |-> JSNum(<<19, 20>>),
   significanceThreshold |-> JSNum(<<1, 20>>),
   minCorrelationStrength |-> JSNum(<<3, 10>>),
   predictionHorizon |-> JSNum(Num(3))]

\* new ProcessAnalytics(options): this.options
ProcessAnalytics(opts) == Spread(ProcessAnalyticsDefaults, opts)

\* the first k decimals of r/b for 0 <= r < b, as a natural
RECURSIVE FractionDigits(_, _, _)
FractionDigits(r, b, k) ==
  IF k = 0 THEN 0
  ELSE ((r * 10) \div b) * (10 ^ (k - 1)) + FractionDigits((r * 10) % b, b, k - 1)

\* the largest natural whose square is at most n, searched in lo..hi
RECURSIVE IntegerSqrt(_, _, _)
IntegerSqrt(n, lo, hi) ==
  IF lo = hi THEN lo
  ELSE LET mid == (lo + hi + 1) \div 2
       IN  IF mid * mid <= n THEN IntegerSqrt(n, mid, hi)
           ELSE IntegerSqrt(n, lo, mid - 1)

\* 10^4 * Math.sqrt(q), rounded down, for a number 0 <= q <= 1
FixedSqrt(q) ==
  IF q[1] >= q[2] THEN 10000
  ELSE IntegerSqrt(FractionDigits(q[1], q[2], 8), 0, 10000)

\* 10^4 * e^(-k), rounded, for k = 0..9
ExpOfNegativeInteger == <<10000, 3679, 1353, 498, 183, 67, 25, 9, 3, 1>>

\* the Taylor series of 10^4 * e^(-f / 10^4) from the term of index j on
RECURSIVE ExpSeries(_, _, _)
ExpSeries(term, f, j) ==
  IF term = 0 \/ j > 12 THEN 0
  ELSE term - ExpSeries((term * f) \div (10000 * j), f, j + 1)

\* 10^4 * Math.exp(-y) to four decimals, for a number y >= 0 or Infinity
FixedExpNeg(y) ==
  IF ~IsFinite(y) \/ y[1] \div y[2] >= 10 THEN 0
  ELSE (ExpOfNegativeInteger[(y[1] \div y[2]) + 1]
          * ExpSeries(10000, FractionDigits(y[1] % y[2], y[2], 4), 1)) \div 10000

\* 10^3 * Math.sqrt(q), rounded down, for a finite number 0 <= q < 36
FixedRoot(q) ==
  IntegerSqrt(((q[1] \div q[2]) * 1000000) + FractionDigits(q[1] % q[2], q[2], 6),
              0, 6000)

\* 10^4 * (0.3193815 + t * (-0.3565638 + t * (1.781478 + t * (-1.821256
\* + t * 1.330274)))) for t given as 10^4 * t
NormalPolynomial(t) ==
  3194 + ((t * (-3566 + ((t * (17815 + ((t * (-18213 + ((t * 13303) \div 10000)))
                                          \div 10000))) \div 10000))) \div 10000)

\* 10^4 * p of normalCDF for 10^4 * t and 10^4 * d
NormalTail(t, d) == (((d * t) \div 10000) * NormalPolynomial(t)) \div 10000

\* normalCDF, the same code in KPICalculator and in ProcessAnalytics, for a
\* z-score given as a root, z >= 0 or NaN.
\* Math.sqrt and Math.exp are evaluated in fixed point: the result is exact
\* for NaN and Infinity and accurate to about 0.001 elsewhere.
normalCDF(z) ==
  CASE RootIsNaN(z) -> NaN
    [] ~RootIsNaN(z) /\ z[1] = 0 -> Rat(NormalTail(10000, 3989), 10000)
    [] ~RootIsNaN(z) /\ z[1] = 1 /\ (~IsFinite(z[2]) \/ Ge(z[2], Num(36))) -> Num(1)
    [] ~RootIsNaN(z) /\ z[1] = 1 /\ IsFinite(z[2]) /\ Lt(z[2], Num(36)) ->
         Sub(Num(1),
             Rat(NormalTail(100000000 \div (10000 + ((2316 * FixedRoot(z[2])) \div 1000)),
                            (3989 * FixedExpNeg(Div(z[2], Num(2)))) \div 10000),
                 10000))

\* ProcessAnalytics.tDistPValue for a t-statistic t >= 0 given as a root.
\* Math.sqrt and Math.exp are evaluated to four decimals, so the p-value
\* for df <= 30 is exact at t = 0 and accurate to about 0.0003 elsewhere.
tDistPValue(t, df) ==
  CASE RootIsNaN(t) -> NaN
    [] ~RootIsNaN(t) /\ df > 30 -> Mul(Num(2), Sub(Num(1), normalCDF(t)))
    [] ~RootIsNaN(t) /\ df <= 30 ->
         LET tt == t[2]
             x == Div(Num(df), Add(Num(df), tt))
             root == FixedSqrt(Sub(Num(1), x))
             density == (3989 * FixedExpNeg(Div(tt, Num(2)))) \div 10000
             p == (root * (5000 + density)) \div 10000
             adjusted == Mul(Rat(p, 10000), Sub(Num(1), Div(Num(1), Num(4 * df))))
         IN  Mul(Num(2), adjusted)

\* ProcessAnalytics.calculateStandardDeviation
calculateStandardDeviationPA(values) ==
  IF Len(values) <= 1 THEN ZeroRoot
  ELSE LET mean == calculateMean(values)
           squaredDiffs == [i \in 1..Len(values) |->
                              Mul(Sub(values[i], mean), Sub(values[i], mean))]
       IN  Sqrt(Div(Sum(squaredDiffs), Num(Len(values) - 1)))

getTValue(degreesOfFreedom, confidenceLevel) ==
  IF degreesOfFreedom > 30
  THEN CASE confidenceLevel = <<9, 10>> -> <<329, 200>>
         [] confidenceLevel = <<19, 20>> -> <<49, 25>>
         [] confidenceLevel = <<99, 100>> -> <<322, 125>>
         [] Gt(confidenceLevel, <<9, 10>>) /\ Lt(confidenceLevel, <<19, 20>>) ->
              Add(<<329, 200>>, Mul(Sub(<<49, 25>>, <<329, 200>>),
                    Div(Sub(confidenceLevel, <<9, 10>>), <<1, 20>>)))
         [] Gt(confidenceLevel, <<19, 20>>) /\ Lt(confidenceLevel, <<99, 100>>) ->
              Add(<<49, 25>>, Mul(Sub(<<322, 125>>, <<49, 25>>),
                    Div(Sub(confidenceLevel, <<19, 20>>), <<1, 25>>)))
         [] OTHER -> Num(2)
  ELSE IF confidenceLevel = <<19, 20>>
  THEN CASE degreesOfFreedom = 1 -> <<1271, 100>>
         [] degreesOfFreedom = 2 -> <<43, 10>>
         [] degreesOfFreedom = 3 -> <<159, 50>>
         [] degreesOfFreedom = 4 -> <<139, 50>>
         [] degreesOfFreedom = 5 -> <<257, 100>>
         [] degreesOfFreedom \notin 1..5 /\ degreesOfFreedom <= 10 -> <<223, 100>>
         [] degreesOfFreedom > 10 /\ degreesOfFreedom <= 20 -> <<209, 100>>
         [] OTHER -> <<51, 25>>
  ELSE IF confidenceLevel = <<99, 100>>
  THEN CASE degreesOfFreedom = 1 -> <<3183, 50>>
         [] degreesOfFreedom = 2 -> <<248, 25>>
         [] degreesOfFreedom = 3 -> <<146, 25>>
         [] degreesOfFreedom = 4 -> <<23, 5>>
         [] degreesOfFreedom = 5 -> <<403, 100>>
         [] degreesOfFreedom \notin 1..5 /\ degreesOfFreedom <= 10 -> <<317, 100>>
         [] degreesOfFreedom > 10 /\ degreesOfFreedom <= 20 -> <<57, 20>>
         [] OTHER -> <<11, 4>>
  ELSE Num(2)

calculateConfidenceInterval(values, confidenceLevel) ==
  IF Len(values) <= 1 THEN <<Exact(Num(0)), Exact(Num(0))>>
  ELSE LET mean == calculateMean(values)
           stdDev == calculateStandardDeviationPA(values)
           n == Len(values)
           tValue == getTValue(n - 1, confidenceLevel)
           marginOfError == RootMul(RootOf(tValue), RootDiv(stdDev, Sqrt(Num(n))))
       IN  <<Surd(mean, RootNeg(marginOfError)), Surd(mean, marginOfError)>>

\* the distinct elements of s in the order of their first occurrence
FirstOccurrences(s) ==
  LET isFirst(i) == \A j \in 1..(i - 1) : s[j] # s[i]
      firsts == {i \in 1..Len(s) : isFirst(i)}
      nth(k) == CHOOSE i \in firsts : Cardinality({j \in firsts : j < i}) = k - 1
  IN  [k \in 1..Cardinality(firsts) |-> s[nth(k)]]

\* a property key that is an array index: the canonical decimal form of a
\* natural (the model's keys stay far below 2^32 - 1)
IsArrayIndex(key) ==
  /\ key # <<>>
  /\ \A i \in 1..Len(key) : IsDigit(key[i])
  /\ Len(key) <= 6
  /\ NatToString(DigitsValue(key)) = key

\* Object.keys of an object whose string keys were created in the order
\* `inserted`: the array indices in ascending numeric order, then the other
\* keys in the order of their creation
ObjectKeys(inserted) ==
  LET keys == FirstOccurrences(inserted)
      isIndex(key) == IsArrayIndex(key)
      isName(key) == ~IsArrayIndex(key)
      byValue(a, b) == DigitsValue(a) < DigitsValue(b)
  IN  SortBy(Filter(keys, isIndex), byValue) \o Filter(keys, isName)

Unknown == Str(<<"U", "n", "k", "n", "o", "w", "n">>)

\* String(item[field] || 'Unknown')
GroupKey(item, field) == StringOf(Or(Get(item, field), Unknown))

\* processByType: the keys of the grouping object and the items under a key
GroupKeys(records, field) ==
  LET key(item) == GroupKey(item, field)
  IN  ObjectKeys(Map(records, key))

GroupItems(records, field, key) ==
  LET member(item) == GroupKey(item, field) = key
  IN  Filter(records, member)

\* the comparison of identifyBestPerformers for one process against another
CompareProcesses(this, process, otherProcess, higherIsBetter) ==
  LET diff == Sub(process.average, otherProcess.average)
      direction == IF higherIsBetter THEN Gt(diff, Num(0)) ELSE Lt(diff, Num(0))
      pooledVariance ==
        Div(Add(Mul(Num(process.sampleSize - 1), process.stdDev[2]),
                Mul(Num(otherProcess.sampleSize - 1), otherProcess.stdDev[2])),
            Num(process.sampleSize + otherProcess.sampleSize - 2))
      standardError ==
        Sqrt(Mul(pooledVariance, Add(Div(Num(1), Num(process.sampleSize)),
                                     Div(Num(1), Num(otherProcess.sampleSize)))))
      tStat == RootDiv(RootOf(NAbs(diff)), standardError)
      df == process.sampleSize + otherProcess.sampleSize - 2
      pValue == tDistPValue(tStat, df)
  IN  IF ~direction THEN [better |-> FALSE, significant |-> FALSE]
      ELSE [better |-> TRUE,
            significant |->
              Lt(pValue, NumberOf(Or(Get(this, "significanceThreshold"),
                                     JSNum(<<1, 20>>))))]

\* result => result.better && result.significant
BetterAndSignificant(result) == result.better /\ result.significant

\* the metrics of the groups with at least 3 numeric performance values, in
\* the order of Object.entries(processByType)
ProcessMetrics(this, records, processTypeField, performanceField) ==
  LET performanceValues(key) ==
        NumericValues(GroupItems(records, processTypeField, key), performanceField)
      enough(key) == Len(performanceValues(key)) >= 3
      metrics(key) ==
        [processType |-> key,
         average |-> calculateMean(performanceValues(key)),
         stdDev |-> calculateStandardDeviationPA(performanceValues(key)),
         confidenceInterval |->
           calculateConfidenceInterval(performanceValues(key),
             Or(Get(this, "confidenceLevel"), JSNum(<<19, 20>>)).n),
         sampleSize |-> Len(performanceValues(key))]
  IN  Map(Filter(GroupKeys(records, processTypeField), enough), metrics)

\* [...processPerformance].sort by b.average - a.average, or a.average -
\* b.average
SortPerformance(processPerformance, higherIsBetter) ==
  LET before(a, b) == IF higherIsBetter THEN Gt(a.average, b.average)
                      ELSE Lt(a.average, b.average)
  IN  SortBy(processPerformance, before)

\* how many of the other processes the one at index is significantly better
\* than
SignificantlyBetterCount(this, sortedPerformance, index, higherIsBetter) ==
  Cardinality({i \in 1..Len(sortedPerformance) :
    /\ i # index
    /\ BetterAndSignificant(CompareProcesses(this, sortedPerformance[index],
                                             sortedPerformance[i], higherIsBetter))})

\* { ...process, rank, significantlyBetterCount, percentileBetter }
RankedProcess(process, index, significantlyBetterCount, others) ==
  [processType |-> process.processType,
   average |-> process.average,
   stdDev |-> process.stdDev,
   confidenceInterval |-> process.confidenceInterval,
   sampleSize |-> process.sampleSize,
   rank |-> index,
   significantlyBetterCount |-> significantlyBetterCount,
   percentileBetter |->
     Mul(Div(Num(significantlyBetterCount),
             Num(IF others > 1 THEN others ELSE 1)), Num(100))]

RankProcesses(this, sortedPerformance, higherIsBetter) ==
  [index \in 1..Len(sortedPerformance) |->
     RankedProcess(sortedPerformance[index], index,
                   SignificantlyBetterCount(this, sortedPerformance, index,
                                            higherIsBetter),
                   Len(sortedPerformance) - 1)]

identifyBestPerformers(this, records, processTypeField, performanceField, higherIsBetter) ==
  RankProcesses(this,
                SortPerformance(ProcessMetrics(this, records, processTypeField,
                                               performanceField),
                                higherIsBetter),
                higherIsBetter)

\* ProcessAnalytics.calculatePearsonCorrelation, the coefficient as the root
\* sign(numerator) * sqrt(numerator^2 / (denominatorX * denominatorY))
PearsonFromSums(numerator, denominator) ==
  IF denominator = ZeroRoot THEN ZeroRoot
  ELSE RootDiv(RootOf(numerator), denominator)

\* numerator and denominator from the deviations from the two means
PearsonFromMeans(x, y, meanX, meanY) ==
  PearsonFromSums(SumOfProducts(x, meanX, y, meanY),
                  Sqrt(Mul(SumOfProducts(x, meanX, x, meanX),
                           SumOfProducts(y, meanY, y, meanY))))

\* the coefficient of the arrays x and y of the same length
PearsonOfColumns(x, y) ==
  PearsonFromMeans(x, y, Div(Sum(x), Num(Len(x))), Div(Sum(y), Num(Len(y))))

calculatePearsonCorrelation(pairs) ==
  IF Len(pairs) < 2 THEN ZeroRoot
  ELSE PearsonOfColumns([i \in 1..Len(pairs) |-> pairs[i][1]],
                        [i \in 1..Len(pairs) |-> pairs[i][2]])

\* Math.abs of a root
RootAbs(u) == <<Abs(u[1]), u[2]>>

calculateCorrelationPValue(r, n) ==
  IF n < 3 THEN Num(1)
  ELSE LET tStat == RootMul(r, Sqrt(Div(Num(n - 2), Sub(Num(1), r[2]))))
       IN  tDistPValue(RootAbs(tStat), n - 2)

\* the pairs [Number(item[param1]), Number(item[param2])] without NaN
NumericPairs(records, param1, param2) ==
  LET pair(item) == <<NumberOf(Get(item, param1)), NumberOf(Get(item, param2))>>
      complete(p) == ~IsNaN(p[1]) /\ ~IsNaN(p[2])
  IN  Filter(Map(records, pair), complete)

\* the index pairs <<i, j>>, i < j, in the order of the two nested loops
RECURSIVE IndexPairs(_, _, _)
IndexPairs(i, j, n) ==
  IF i >= n THEN <<>>
  ELSE IF j > n THEN IndexPairs(i + 1, i + 2, n)
  ELSE <<<<i, j>>>> \o IndexPairs(i, j + 1, n)

\* the test of analyzeCorrelations with each option read as it is, 0 included
SignificantAsConfigured(this, correlation, pValue) ==
  /\ Lt(pValue, NumberOf(Get(this, "significanceThreshold")))
  /\ NumLeRoot(NumberOf(Get(this, "minCorrelationStrength")), RootAbs(correlation))

\* pValue < (significanceThreshold || 0.05) &&
\*   Math.abs(correlation) >= (minCorrelationStrength || 0.3)
Significant(this, correlation, pValue) ==
  /\ Lt(pValue, NumberOf(Or(Get(this, "significanceThreshold"), JSNum(<<1, 20>>))))
  /\ LET minimum == NumberOf(Or(Get(this, "minCorrelationStrength"),
                                JSNum(<<3, 10>>)))
     IN  ~IsNaN(minimum) /\ NumLeRoot(minimum, RootAbs(correlation))

\* results.sort by Math.abs(b.r) - Math.abs(a.r), left as pushed
UnsortedCorrelations(results) == results

SortCorrelations(results) ==
  LET stronger(a, b) == Lt(b.correlationCoefficient[2], a.correlationCoefficient[2])
  IN  SortBy(results, stronger)

\* the result pushed for one pair of parameters
CorrelationResult(this, param1, param2, correlation, pValue, sampleSize) ==
  [parameter1 |-> param1,
   parameter2 |-> param2,
   correlationCoefficient |-> correlation,
   pValue |-> pValue,
   significant |-> Significant(this, correlation, pValue),
   sampleSize |-> sampleSize]

\* pValue from the coefficient and the number of complete pairs
CorrelationFrom(this, param1, param2, correlation, sampleSize) ==
  CorrelationResult(this, param1, param2, correlation,
                    calculateCorrelationPValue(correlation, sampleSize),
                    sampleSize)

\* the coefficient of the complete pairs of one pair of parameters
CorrelationOfPairs(this, param1, param2, pairs) ==
  CorrelationFrom(this, param1, param2, calculatePearsonCorrelation(pairs),
                  Len(pairs))

\* ProcessAnalytics.analyzeCorrelations: every pair i < j of parameters with
\* at least 3 complete pairs, sorted by strength
analyzeCorrelations(this, records, parameters) ==
  LET all == IndexPairs(1, 2, Len(parameters))
      pairs(ij) == NumericPairs(records, parameters[ij[1]], parameters[ij[2]])
      enough(ij) == Len(pairs(ij)) >= 3
      result(ij) == CorrelationOfPairs(this, parameters[ij[1]],
                                       parameters[ij[2]], pairs(ij))
  IN  SortCorrelations(Map(Filter(all, enough), result))

\* calculateLinearRegression, the same code in KPICalculator and in
\* ProcessAnalytics
RegressionFromSlope(slope, xMean, yMean, sumXY, sumXX, sumYY) ==
  [slope |-> slope,
   intercept |-> Sub(yMean, Mul(slope, xMean)),
   rSquared |-> Div(Mul(sumXY, sumXY), Mul(sumXX, sumYY))]

\* slope = sumXY / sumXX
RegressionFromSums(xMean, yMean, sumXY, sumXX, sumYY) ==
  RegressionFromSlope(Div(sumXY, sumXX), xMean, yMean, sumXY, sumXX, sumYY)

\* the three sums of products of deviations
RegressionFromMeans(x, y, xMean, yMean) ==
  RegressionFromSums(xMean, yMean,
                     SumOfProducts(x, xMean, y, yMean),
                     SumOfProducts(x, xMean, x, xMean),
                     SumOfProducts(y, yMean, y, yMean))

\* the guard on the lengths, then the two means
LinearRegression(x, y) ==
  IF Len(x) # Len(y) \/ Len(x) = 0
  THEN [slope |-> Num(0), intercept |-> Num(0), rSquared |-> Num(0)]
  ELSE RegressionFromMeans(x, y, calculateMean(x), calculateMean(y))

\* KPICalculator.calculateLinearRegression
calculateLinearRegression(x, y) == LinearRegression(x, y)

\* ProcessAnalytics.calculateLinearRegression
calculateLinearRegressionPA(x, y) == LinearRegression(x, y)

(***************************************************************************)
(* Time order.  The comparator (a, b) => timeA - timeB returns NaN when    *)
(* one of the two timestamps cannot be parsed, and Array.prototype.sort    *)
(* takes NaN as 0; such a comparator is not consistent, so the order of    *)
(* the result depends on the algorithm of the engine.  Two algorithms      *)
(* stand for the engines: straight insertion and top-down merge; both are  *)
(* stable sorts when every timestamp can be parsed.                        *)
(***************************************************************************)
Engines == {"insertion", "merge"}

\* new Date(v).getTime() for undefined, null, a boolean, an integer number
\* of milliseconds, or a string without a digit (which holds no date)
DateTime(v) ==
  CASE v.t = "undefined" -> NaN
    [] v.t = "null" -> Num(0)
    [] v.t = "boolean" -> (IF v.b THEN Num(1) ELSE Num(0))
    [] v.t = "number" /\ (~IsFinite(v.n) \/ v.n[2] = 1) ->
         (IF IsFinite(v.n) THEN v.n ELSE NaN)
    [] v.t = "string" /\ \A i \in 1..Len(v.s) : ~IsDigit(v.s[i]) -> NaN

\* the comparator of the sorts by time, as the sort takes it: the sign of
\* timeA - timeB, 0 for NaN
CompareByTime(a, b, timeField) ==
  LET difference == Sub(DateTime(Get(a, timeField)), DateTime(Get(b, timeField)))
  IN  IF IsNaN(difference) THEN 0 ELSE Sign(difference[1])

\* item put into the sorted list front, after the last element that the
\* comparator does not put after it
InsertByTime(front, item, timeField) ==
  LET notAfter == {i \in 1..Len(front) : CompareByTime(front[i], item, timeField) <= 0}
      k == IF notAfter = {} THEN 0
           ELSE CHOOSE i \in notAfter : \A j \in notAfter : j <= i
  IN  SubSeq(front, 1, k) \o <<item>> \o SubSeq(front, k + 1, Len(front))

RECURSIVE InsertionSortByTime(_, _)
InsertionSortByTime(records, timeField) ==
  IF Len(records) <= 1 THEN records
  ELSE InsertByTime(InsertionSortByTime(SubSeq(records, 1, Len(records) - 1), timeField),
                    records[Len(records)], timeField)

\* the merge of two sorted lists, the left element first unless the
\* comparator puts it after the right one
RECURSIVE MergeByTime(_, _, _)
MergeByTime(left, right, timeField) ==
  IF left = <<>> THEN right
  ELSE IF right = <<>> THEN left
  ELSE IF CompareByTime(left[1], right[1], timeField) <= 0
  THEN <<left[1]>> \o MergeByTime(Tail(left), right, timeField)
  ELSE <<right[1]>> \o MergeByTime(left, Tail(right), timeField)

RECURSIVE MergeSortByTime(_, _)
MergeSortByTime(records, timeField) ==
  IF Len(records) <= 1 THEN records
  ELSE MergeByTime(MergeSortByTime(SubSeq(records, 1, Len(records) \div 2), timeField),
                   MergeSortByTime(SubSeq(records, (Len(records) \div 2) + 1,
                                          Len(records)), timeField),
                   timeField)

\* [...data].sort((a, b) => new Date(a[timeField]).getTime()
\*                          - new Date(b[timeField]).getTime())
SortByTime(records, timeField) ==
  IF engine = "insertion" THEN InsertionSortByTime(records, timeField)
  ELSE MergeSortByTime(records, timeField)

(***************************************************************************)
(* ProcessAnalytics.generatePredictions                                    *)
(***************************************************************************)
\* 1000 * 60 * 60 * 24
MillisecondsPerDay == 86400000

\* the records with a numeric value of the parameter and a timestamp that
\* can be parsed
HasValueAndTime(item, timeField, param) ==
  /\ ~IsNaN(NumberOf(Get(item, param)))
  /\ ~IsNaN(DateTime(Get(item, timeField)))

\* timeSeriesData: the pairs [timestamp.getTime(), value], in sorted order
TimeSeriesData(sortedData, timeField, param) ==
  LET kept(item) == HasValueAndTime(item, timeField, param)
      pair(item) == <<DateTime(Get(item, timeField)), NumberOf(Get(item, param))>>
  IN  Map(Filter(sortedData, kept), pair)

\* Math.round(x) for a finite number x
MathRound(x) == IF IsFinite(x) THEN Num(((2 * x[1]) + x[2]) \div (2 * x[2])) ELSE x

calculatePredictionInterval(x, y, regression, predictX, confidenceLevel) ==
  IF Len(x) # Len(y) \/ Len(x) < 3 THEN <<Exact(Num(0)), Exact(Num(0))>>
  ELSE LET n == Len(x)
           xMean == calculateMean(x)
           predictedY == Add(Mul(regression.slope, predictX), regression.intercept)
           residuals == [i \in 1..n |->
                           Sub(y[i], Add(Mul(regression.slope, x[i]),
                                         regression.intercept))]
           residualSumSquares == Sum([i \in 1..n |-> Mul(residuals[i], residuals[i])])
           standardError == Sqrt(Div(residualSumSquares, Num(n - 2)))
           sumSquaredX == Sum([i \in 1..n |-> Mul(Sub(x[i], xMean), Sub(x[i], xMean))])
           tValue == getTValue(n - 2, confidenceLevel)
           predictionWidth ==
             RootMul(RootMul(RootOf(tValue), standardError),
                     Sqrt(Add(Add(Num(1), Div(Num(1), Num(n))),
                              Div(Mul(Sub(predictX, xMean), Sub(predictX, xMean)),
                                  sumSquaredX))))
       IN  <<Surd(predictedY, RootNeg(predictionWidth)),
             Surd(predictedY, predictionWidth)>>

\* the values of the time series
SeriesValues(timeSeriesData) ==
  [i \in 1..Len(timeSeriesData) |-> timeSeriesData[i][2]]

\* the days from the first timestamp
DaysFromFirst(timeSeriesData) ==
  [i \in 1..Len(timeSeriesData) |->
     Div(Sub(timeSeriesData[i][1], timeSeriesData[1][1]), Num(MillisecondsPerDay))]

\* regression.rSquared * (1 - 1 / Math.sqrt(n)), as the surd
\* rSquared - rSquared / sqrt(n)
Reliability(rSquared, n) ==
  Surd(rSquared, RootNeg(RootDiv(RootOf(rSquared), Sqrt(Num(n)))))

\* the result pushed for a parameter from its regression
PredictionOf(this, param, currentValue, xValues, yValues, regression, predictionHorizonDays) ==
  LET predictX == Add(xValues[Len(xValues)], predictionHorizonDays)
      predictedValue == Add(Mul(regression.slope, predictX), regression.intercept)
      predictedChange == Sub(predictedValue, currentValue)
  IN  [parameter |-> param,
       currentValue |-> currentValue,
       predictedValue |-> predictedValue,
       predictedChange |-> predictedChange,
       predictedChangePercent |-> Mul(Div(predictedChange, currentValue), Num(100)),
       confidenceInterval |->
         calculatePredictionInterval(xValues, yValues, regression, predictX,
           NumberOf(Or(this.confidenceLevel, JSNum(<<19, 20>>)))),
       predictionHorizon |->
         NumberToString(MathRound(predictionHorizonDays)) \o <<" ", "d", "a", "y", "s">>,
       reliability |-> Reliability(regression.rSquared, Len(xValues))]

\* the result pushed for a parameter from the days and the values of its
\* time series
PredictionFrom(this, param, xValues, yValues) ==
  PredictionOf(this, param, yValues[Len(yValues)], xValues, yValues,
               calculateLinearRegressionPA(xValues, yValues),
               Div(Mul(NumberOf(Or(this.predictionHorizon, JSNum(Num(3)))),
                       Sub(xValues[Len(xValues)], xValues[1])),
                   Num(Len(xValues))))

\* the results for the parameters with at least 5 points, in the order of
\* the parameters
PredictionsFrom(this, sortedData, timeField, parameters) ==
  LET series(param) == TimeSeriesData(sortedData, timeField, param)
      enough(param) == Len(series(param)) >= 5
      result(param) == PredictionFrom(this, param, DaysFromFirst(series(param)),
                                      SeriesValues(series(param)))
  IN  Map(Filter(parameters, enough), result)

generatePredictions(this, records, timeField, parameters) ==
  PredictionsFrom(this, SortByTime(records, timeField), timeField, parameters)

(***************************************************************************)
(* ProcessAnalytics.recognizePatterns.  A description is the template of   *)
(* the text with the values put into it.                                   *)
(***************************************************************************)
\* the autocorrelation of values at a lag
Autocorrelation(values, mean, lag) ==
  LET n == Len(values)
      numerator == Sum([i \in 1..(n - lag) |->
                          Mul(Sub(values[i], mean), Sub(values[i + lag], mean))])
      denominator == Sum([i \in 1..(n - lag) |->
                            Mul(Sub(values[i], mean), Sub(values[i], mean))])
  IN  Div(numerator, denominator)

\* the lags (from 2 on) whose autocorrelation is above both neighbours and
\* above 0.3
AutocorrelationPeaks(autocorrelations) ==
  {lag \in 2..(Len(autocorrelations) - 1) :
     /\ Gt(autocorrelations[lag], autocorrelations[lag - 1])
     /\ Gt(autocorrelations[lag], autocorrelations[lag + 1])
     /\ Gt(autocorrelations[lag], <<3, 10>>)}

CyclicalPattern(parameter, cycleLength, autocorrelation) ==
  [patternType |-> "cyclical",
   description |->
     [text |-> "Cyclical pattern detected in ${parameter} with approximate cycle length of ${cycleLength} data points",
      parameter |-> parameter, cycleLength |-> cycleLength],
   affectedParameters |-> <<parameter>>,
   confidence |-> (IF IsNaN(autocorrelation) THEN NaN
                   ELSE IF Lt(Add(autocorrelation, <<1, 2>>), Num(1))
                   THEN Add(autocorrelation, <<1, 2>>) ELSE Num(1)),
   supportingData |-> <<[cycleLength |-> cycleLength,
                         autocorrelation |-> autocorrelation]>>]

\* the pattern of the first peak of the autocorrelations, null without peak
CyclicalPatternOf(parameter, autocorrelations, peaks) ==
  IF peaks = {} THEN Null
  ELSE CyclicalPattern(parameter, CHOOSE lag \in peaks : \A other \in peaks : lag <= other,
         autocorrelations[CHOOSE lag \in peaks : \A other \in peaks : lag <= other])

CyclicalPatternFrom(parameter, autocorrelations) ==
  CyclicalPatternOf(parameter, autocorrelations, AutocorrelationPeaks(autocorrelations))

CyclicalPatternIn(parameter, values, mean) ==
  CyclicalPatternFrom(parameter,
    [lag \in 1..(Len(values) \div 3) |-> Autocorrelation(values, mean, lag)])

detectCyclicalPattern(sortedData, parameter) ==
  IF Len(NumericValues(sortedData, parameter)) < 10 THEN Null
  ELSE CyclicalPatternIn(parameter, NumericValues(sortedData, parameter),
                         calculateMean(NumericValues(sortedData, parameter)))

\* the t-statistic of the slope of a regression, as a root
SlopeTStatistic(xValues, values, regression, xMean) ==
  LET n == Len(values)
      sumSquaredX == Sum([i \in 1..n |-> Mul(Sub(xValues[i], xMean), Sub(xValues[i], xMean))])
      residuals == [i \in 1..n |->
                      Sub(values[i], Add(Mul(regression.slope, xValues[i]),
                                         regression.intercept))]
      residualSumSquares == Sum([i \in 1..n |-> Mul(residuals[i], residuals[i])])
      standardError == Sqrt(Div(residualSumSquares, Num(n - 2)))
      slopeStandardError == RootDiv(standardError, Sqrt(sumSquaredX))
  IN  RootDiv(RootOf(regression.slope), slopeStandardError)

TrendPattern(parameter, regression, pValue, mean) ==
  [patternType |-> "trend",
   description |->
     [text |-> "${trendDirection} trend detected in ${parameter}",
      trendDirection |-> (IF Gt(regression.slope, Num(0)) THEN "Increasing"
                          ELSE "Decreasing"),
      parameter |-> parameter],
   affectedParameters |-> <<parameter>>,
   confidence |-> Mul(Sub(Num(1), pValue), regression.rSquared),
   supportingData |-> <<[slope |-> regression.slope,
                         rSquared |-> regression.rSquared,
                         pValue |-> pValue,
                         trendStrength |-> Div(NAbs(regression.slope), mean)]>>]

\* the pattern unless the p-value reaches the threshold or the slope is
\* below a hundredth of the mean
TrendPatternOf(this, parameter, regression, pValue, mean) ==
  IF \/ Ge(pValue, NumberOf(Or(this.significanceThreshold, JSNum(<<1, 20>>))))
     \/ Lt(NAbs(regression.slope), Mul(<<1, 100>>, mean))
  THEN Null
  ELSE TrendPattern(parameter, regression, pValue, mean)

TrendPatternFrom(this, parameter, xValues, values, regression) ==
  TrendPatternOf(this, parameter, regression,
                 tDistPValue(RootAbs(SlopeTStatistic(xValues, values, regression,
                                                     calculateMean(xValues))),
                             Len(values) - 2),
                 calculateMean(values))

TrendPatternIn(this, parameter, xValues, values) ==
  TrendPatternFrom(this, parameter, xValues, values,
                   calculateLinearRegressionPA(xValues, values))

detectTrendPattern(this, sortedData, parameter) ==
  IF Len(NumericValues(sortedData, parameter)) < 5 THEN Null
  ELSE TrendPatternIn(this, parameter,
         [i \in 1..Len(NumericValues(sortedData, parameter)) |-> Num(i - 1)],
         NumericValues(sortedData, parameter))

\* Math.abs(mean2 - mean1) for the split of values after the first i
MeanDifference(values, i) ==
  NAbs(Sub(calculateMean(SubSeq(values, i + 1, Len(values))),
           calculateMean(SubSeq(values, 1, i))))

\* a search that moves to a later split point of the same mean difference
RECURSIVE LastBestChangePoint(_, _, _, _, _)
LastBestChangePoint(values, i, last, best, maxMeanDifference) ==
  IF i > last THEN best
  ELSE IF Ge(MeanDifference(values, i), maxMeanDifference)
  THEN LastBestChangePoint(values, i + 1, last, i, MeanDifference(values, i))
  ELSE LastBestChangePoint(values, i + 1, last, best, maxMeanDifference)

\* bestChangePoint: the first split point, from minSegmentSize to
\* n - minSegmentSize, with the greatest mean difference above 0; -1 if
\* there is none
RECURSIVE BestChangePoint(_, _, _, _, _)
BestChangePoint(values, i, last, best, maxMeanDifference) ==
  IF i > last THEN best
  ELSE IF Gt(MeanDifference(values, i), maxMeanDifference)
  THEN BestChangePoint(values, i + 1, last, i, MeanDifference(values, i))
  ELSE BestChangePoint(values, i + 1, last, best, maxMeanDifference)

\* the t-statistic of the difference of the means of two segments, a root
SegmentsTStatistic(segment1, segment2) ==
  LET variance1 == calculateStandardDeviationPA(segment1)[2]
      variance2 == calculateStandardDeviationPA(segment2)[2]
      pooledVariance ==
        Div(Add(Mul(Num(Len(segment1) - 1), variance1),
                Mul(Num(Len(segment2) - 1), variance2)),
            Num(Len(segment1) + Len(segment2) - 2))
      standardError ==
        Sqrt(Mul(pooledVariance,
                 Add(Div(Num(1), Num(Len(segment1))), Div(Num(1), Num(Len(segment2))))))
  IN  RootDiv(RootOf(NAbs(Sub(calculateMean(segment2), calculateMean(segment1)))),
              standardError)

StepChangePattern(parameter, bestChangePoint, mean1, mean2, pValue, relativeChange) ==
  [patternType |-> "step_change",
   description |->
     [text |-> "Step change detected in ${parameter} at data point ${bestChangePoint}",
      parameter |-> parameter, bestChangePoint |-> bestChangePoint],
   affectedParameters |-> <<parameter>>,
   confidence |->
     Mul(Sub(Num(1), pValue),
         (IF IsNaN(relativeChange) THEN NaN
          ELSE IF Lt(Mul(NAbs(relativeChange), Num(5)), Num(1))
          THEN Mul(NAbs(relativeChange), Num(5)) ELSE Num(1))),
   supportingData |-> <<[changePoint |-> bestChangePoint,
                         beforeMean |-> mean1,
                         afterMean |-> mean2,
                         relativeChange |-> Mul(relativeChange, Num(100)),
                         pValue |-> pValue]>>]

\* the pattern unless the p-value reaches the threshold
StepChangePatternOf(this, parameter, bestChangePoint, mean1, mean2, pValue) ==
  IF Ge(pValue, NumberOf(Or(this.significanceThreshold, JSNum(<<1, 20>>))))
  THEN Null
  ELSE StepChangePattern(parameter, bestChangePoint, mean1, mean2, pValue,
                         Div(Sub(mean2, mean1), mean1))

StepChangePatternAt(this, parameter, bestChangePoint, segment1, segment2) ==
  StepChangePatternOf(this, parameter, bestChangePoint,
                      calculateMean(segment1), calculateMean(segment2),
                      tDistPValue(SegmentsTStatistic(segment1, segment2),
                                  Len(segment1) + Len(segment2) - 2))

StepChangePatternFrom(this, parameter, values, bestChangePoint) ==
  IF bestChangePoint = -1 THEN Null
  ELSE StepChangePatternAt(this, parameter, bestChangePoint,
                           SubSeq(values, 1, bestChangePoint),
                           SubSeq(values, bestChangePoint + 1, Len(values)))

StepChangePatternIn(this, parameter, values, minSegmentSize) ==
  StepChangePatternFrom(this, parameter, values,
    BestChangePoint(values, minSegmentSize, Len(values) - minSegmentSize, -1, Num(0)))

detectStepChangePattern(this, sortedData, parameter) ==
  IF Len(NumericValues(sortedData, parameter)) < 10 THEN Null
  ELSE StepChangePatternIn(this, parameter, NumericValues(sortedData, parameter),
         IF Len(NumericValues(sortedData, parameter)) \div 10 > 3
         THEN Len(NumericValues(sortedData, parameter)) \div 10 ELSE 3)

IsPattern(pattern) == pattern # Null

IsSignificant(correlation) == correlation.significant

CorrelationPattern(corr) ==
  [patternType |-> "correlation",
   description |->
     [text |-> "Strong ${sign} correlation between ${parameter1} and ${parameter2}",
      sign |-> (IF corr.correlationCoefficient[1] > 0 /\ ~RootIsNaN(corr.correlationCoefficient)
                THEN "positive" ELSE "negative"),
      parameter1 |-> corr.parameter1, parameter2 |-> corr.parameter2],
   affectedParameters |-> <<corr.parameter1, corr.parameter2>>,
   confidence |-> Sub(Num(1), corr.pValue),
   supportingData |-> <<>>]

\* the patterns of the four kinds, from the sorted data and the data
PatternsFrom(this, sortedData, records, parameters) ==
  LET cyclical(param) == detectCyclicalPattern(sortedData, param)
      trend(param) == detectTrendPattern(this, sortedData, param)
      step(param) == detectStepChangePattern(this, sortedData, param)
  IN  Filter(Map(parameters, cyclical), IsPattern)
        \o Filter(Map(parameters, trend), IsPattern)
        \o Filter(Map(parameters, step), IsPattern)
        \o Map(Filter(analyzeCorrelations(this, records, parameters), IsSignificant),
               CorrelationPattern)

recognizePatterns(this, records, timeField, parameters) ==
  PatternsFrom(this, SortByTime(records, timeField), records, parameters)

(***************************************************************************)
(* KPICalculator.analyzeVariance                                           *)
(***************************************************************************)
\* the records whose value field is numeric
NumericRecords(records, valueField) ==
  LET numeric(item) == ~IsNaN(NumberOf(Get(item, valueField)))
  IN  Filter(records, numeric)

\* the statistics of one group against the overall mean and variance
VarianceOfGroup(groupName, values, overallAverage, overallVariance) ==
  LET average == calculateMean(values)
      deviation == NAbs(Sub(average, overallAverage))
      standardError == Sqrt(Div(overallVariance, Num(Len(values))))
  IN  [groupName |-> groupName,
       average |-> average,
       variance |-> calculateVariance(values),
       sampleSize |-> Len(values),
       significantlyDifferent |->
         ~NumLeRoot(deviation, RootMul(RootOf(Num(2)), standardError)),
       pValue |->
         Mul(Num(2), Sub(Num(1), normalCDF(RootDiv(RootOf(deviation), standardError))))]

\* the results of the groups of the records with a numeric value, in the
\* order of Object.entries
VarianceOfGroups(numeric, groupField, valueField, allValues) ==
  LET result(key) ==
        VarianceOfGroup(key, NumericValues(GroupItems(numeric, groupField, key), valueField),
                        calculateMean(allValues), calculateVariance(allValues))
  IN  Map(GroupKeys(numeric, groupField), result)

analyzeVariance(records, groupField, valueField) ==
  VarianceOfGroups(NumericRecords(records, valueField), groupField, valueField,
                   NumericValues(records, valueField))

(***************************************************************************)
(* KPICalculator.identifyTrends                                            *)
(***************************************************************************)
\* KPICalculator.tDistPValue, the same code as in ProcessAnalytics
tDistPValueKPI(t, df) == tDistPValue(t, df)

\* values.slice(start, end) for 0 <= start and 0 <= end
Slice(values, start, end) ==
  IF start >= Len(values) \/ start >= end THEN <<>>
  ELSE SubSeq(values, start + 1, IF end < Len(values) THEN end ELSE Len(values))

\* the values of the periods: periodSize values each, the last period up
\* to the end
PeriodValues(values, periods, periodSize) ==
  [i \in 1..periods |->
     Slice(values, (i - 1) * periodSize,
           IF i = periods THEN Len(values) ELSE i * periodSize)]

PeriodStats(periodValues) ==
  [index \in 1..Len(periodValues) |->
     [period |-> index,
      average |-> calculateMean(periodValues[index]),
      stdDev |-> calculateStandardDeviation(periodValues[index]),
      sampleSize |-> Len(periodValues[index])]]

NoTrend == [trend |-> "none", significance |-> Num(0), periods |-> <<>>]

TrendResult(periodStats, regression, pValue) ==
  [trend |-> (IF Gt(regression.slope, Num(0)) THEN "increasing"
              ELSE IF Lt(regression.slope, Num(0)) THEN "decreasing"
              ELSE "stable"),
   slope |-> regression.slope,
   intercept |-> regression.intercept,
   rSquared |-> regression.rSquared,
   significant |-> Lt(pValue, <<1, 20>>),
   pValue |-> pValue,
   periods |-> periodStats]

TrendFromRegression(periodStats, xValues, yValues, regression) ==
  TrendResult(periodStats, regression,
              tDistPValueKPI(RootAbs(SlopeTStatistic(xValues, yValues, regression,
                                                     calculateMean(xValues))),
                             Len(xValues) - 2))

TrendFromAverages(periodStats, xValues, yValues) ==
  TrendFromRegression(periodStats, xValues, yValues,
                      calculateLinearRegression(xValues, yValues))

TrendFromStats(periodStats) ==
  TrendFromAverages(periodStats,
                    [i \in 1..Len(periodStats) |-> Num(i)],
                    [i \in 1..Len(periodStats) |-> periodStats[i].average])

\* the trend of the values in time order, for periods >= 3
TrendOfValuesUnguarded(values, periods) ==
  TrendFromStats(PeriodStats(PeriodValues(values, periods,
    IF Len(values) \div periods > 1 THEN Len(values) \div periods ELSE 1)))

TrendOfValues(values, periods) ==
  IF Len(values) = 0 THEN NoTrend
  ELSE TrendFromStats(PeriodStats(PeriodValues(values, periods,
         IF Len(values) \div periods > 1 THEN Len(values) \div periods ELSE 1)))

identifyTrends(records, timeField, valueField, periods) ==
  TrendOfValues(NumericValues(SortByTime(records, timeField), valueField), periods)

(***************************************************************************)
(* AnalyticsService                                                        *)
(***************************************************************************)
AnalyticsServiceDefaults ==
  [confidenceLevel |-> JSNum(<<19, 20>>),
   outlierDetection |-> Bool(TRUE),
   outlierThreshold |-> JSNum(<<3, 2>>),
   significanceThreshold |-> JSNum(<<1, 20>>),
   minCorrelationStrength |-> JSNum(<<3, 10>>),
   predictionHorizon |-> JSNum(Num(3))]

\* new AnalyticsService(options): the options of the service and of the
\* two objects it builds
AnalyticsService(opts) ==
  LET merged == Spread(AnalyticsServiceDefaults, opts)
  IN  [options |-> merged,
       kpiCalculator |->
         KPICalculator([confidenceLevel |-> merged.confidenceLevel,
                        outlierDetection |-> merged.outlierDetection,
                        outlierThreshold |-> merged.outlierThreshold]),
       processAnalytics |->
         ProcessAnalytics([confidenceLevel |-> merged.confidenceLevel,
                           significanceThreshold |-> merged.significanceThreshold,
                           minCorrelationStrength |-> merged.minCorrelationStrength,
                           predictionHorizon |-> merged.predictionHorizon])]

\* bestPerformers.find(bp => bp.processType === processType): the index of
\* the first match, 0 for undefined
FindBestPerformer(bestPerformers, processType) ==
  LET matches == {i \in 1..Len(bestPerformers) :
                    bestPerformers[i].processType = processType}
  IN  IF matches = {} THEN 0
      ELSE CHOOSE i \in matches : \A j \in matches : i <= j

\* the entries pushed for the process types with at least 3 records, rank
\* and flags still to be updated
PerformanceEntries(this, records, cfg) ==
  LET items(key) == GroupItems(records, cfg.processTypeField, key)
      enough(key) == Len(items(key)) >= 3
      entry(key) ==
        [processType |-> key,
         rft |-> calculateRFT(this.kpiCalculator, items(key), cfg.successField,
                              cfg.successValue),
         duration |-> calculateProcessDuration(this.kpiCalculator, items(key),
                                               cfg.durationField),
         rank |-> 0,
         significantlyBetter |-> FALSE,
         percentileBetter |-> Num(0)]
  IN  Map(Filter(GroupKeys(records, cfg.processTypeField), enough), entry)

\* the update of one entry from the best performer found for it
UpdateRanking(process, bestPerformers, found) ==
  IF found = 0 THEN process
  ELSE [process EXCEPT
          !.rank = bestPerformers[found].rank,
          !.significantlyBetter = bestPerformers[found].significantlyBetterCount > 0,
          !.percentileBetter = bestPerformers[found].percentileBetter]

UpdateRankings(processPerformance, bestPerformers) ==
  [i \in 1..Len(processPerformance) |->
     UpdateRanking(processPerformance[i], bestPerformers,
                   FindBestPerformer(bestPerformers,
                                     processPerformance[i].processType))]

\* processPerformance.sort((a, b) => a.rank - b.rank), left as it was built
UnsortedPerformance(processPerformance) == processPerformance

SortByRank(processPerformance) ==
  LET before(a, b) == a.rank < b.rank
  IN  SortBy(processPerformance, before)

\* the number of periods the dashboard asks identifyTrends for
DashboardPeriods == 5

generateDashboardAnalytics(this, records, cfg) ==
  [overallRFT |-> calculateRFT(this.kpiCalculator, records, cfg.successField,
                               cfg.successValue),
   processPerformance |->
     SortByRank(UpdateRankings(
       PerformanceEntries(this, records, cfg),
       identifyBestPerformers(this.processAnalytics, records,
                              cfg.processTypeField, cfg.successField, TRUE))),
   trends |-> identifyTrends(records, cfg.timeField, cfg.successField,
                             DashboardPeriods),
   patterns |-> recognizePatterns(this.processAnalytics, records, cfg.timeField,
                                  cfg.parameterFields),
   correlations |->
     analyzeCorrelations(this.processAnalytics, records, cfg.parameterFields),
   predictions |-> generatePredictions(this.processAnalytics, records,
                                       cfg.timeField, cfg.parameterFields)]

(***************************************************************************)
(* The calls                                                               *)
(***************************************************************************)
NoConfig ==
  [processTypeField |-> "ProcessType", successField |-> "Success",
   successValue |-> Bool(TRUE), durationField |-> "Duration",
   performanceField |-> "Success", higherIsBetter |-> TRUE,
   timeField |-> "Timestamp", valueField |-> "Success", periods |-> 5,
   parameterFields |-> <<>>]

\* the sequences over S of length at most n
SeqsUpTo(S, n) == UNION {[1..k -> S] : k \in 0..n}

Returns(name, value) ==
  /\ call = "none"
  /\ call' = name
  /\ ret' = value
  /\ UNCHANGED <<data, config, options, xs, ys, engine, earlier,
               processing, log, provider>>

(***************************************************************************)
(* calculateRFT on bounded inputs                                          *)
(***************************************************************************)
MaxRFTRecords == 3

SuccessFieldValues ==
  {Undefined, Null, Bool(TRUE), Bool(FALSE), JSNum(Num(1)), JSNum(Num(0)),
   Str(<<"Y", "e", "s">>), Str(<<>>)}

SuccessValues ==
  {Bool(TRUE), Bool(FALSE), Str(<<"Y", "E", "S">>), Str(<<"T", "r", "u", "e">>),
   JSNum(Num(1)), Null}

\* the five batches of the test suite: Success = true, true, false, true, true
ScenarioA ==
  <<[Success |-> Bool(TRUE)], [Success |-> Bool(TRUE)], [Success |-> Bool(FALSE)],
    [Success |-> Bool(TRUE)], [Success |-> Bool(TRUE)]>>

InitRFT ==
  /\ data \in {[i \in DOMAIN s |-> [Success |-> s[i]]] :
                 s \in SeqsUpTo(SuccessFieldValues, MaxRFTRecords)} \cup {ScenarioA}
  /\ config \in {[NoConfig EXCEPT !.successValue = v] : v \in SuccessValues}
  /\ options = << >>
  /\ xs = << >>
  /\ ys = << >>
  /\ engine = "insertion"
  /\ earlier = << >>
  /\ call = "none"
  /\ ret = "none"
  /\ processing = << >>
  /\ log = << >>
  /\ provider = "none"

CalculateRFT ==
  Returns("calculateRFT",
          calculateRFT(KPICalculator(options), data, config.successField,
                       config.successValue))

NextRFT == CalculateRFT

SpecRFT == InitRFT /\ [][NextRFT]_vars

RFTCountsByTypeOfSuccessValue ==
  call = "calculateRFT" =>
    LET sv == config.successValue
        value(i) == Get(data[i], config.successField)
        successes ==
          {i \in 1..Len(data) :
             CASE sv.t = "boolean" -> BooleanOf(value(i)) = sv.b
               [] sv.t = "string" ->
                    toLowerCase(StringOf(value(i))) = toLowerCase(sv.s)
               [] OTHER -> value(i) = sv /\ ~(sv.t = "number" /\ IsNaN(sv.n))}
    IN  /\ ret.sampleSize = Len(data)
        /\ Len(data) > 0 =>
             Mul(ret.rate, Num(Len(data))) = Num(Cardinality(successes))
        /\ data = ScenarioA /\ sv = Bool(TRUE) =>
             ret.rate = <<4, 5>> /\ ret.sampleSize = 5

\* a string successValue matched by a field that differs from it in case,
\* beside a field that does not match
RFTMatchesIgnoringCase ==
  /\ call = "calculateRFT"
  /\ config.successValue.t = "string"
  /\ \E i \in 1..Len(data) :
       /\ Get(data[i], config.successField).t = "string"
       /\ Get(data[i], config.successField).s # config.successValue.s
       /\ toLowerCase(Get(data[i], config.successField).s)
            = toLowerCase(config.successValue.s)
  /\ Lt(Num(0), ret.rate)
  /\ Lt(ret.rate, Num(1))

(***************************************************************************)
(* calculateProcessDuration on bounded inputs                              *)
(***************************************************************************)
MaxDurationRecords == 5

DurationFieldValues ==
  {JSNum(Num(1)), JSNum(Num(10)), JSNum(Num(11)), JSNum(Num(30)), Null, Undefined}

InitDuration ==
  /\ data \in {[i \in DOMAIN s |-> [Duration |-> s[i]]] :
                 s \in SeqsUpTo(DurationFieldValues, MaxDurationRecords)}
  /\ config = NoConfig
  /\ \/ options = << >>
     \/ options = [outlierDetection |-> Bool(FALSE)]
  /\ xs = << >>
  /\ ys = << >>
  /\ engine = "insertion"
  /\ earlier = << >>
  /\ call = "none"
  /\ ret = "none"
  /\ processing = << >>
  /\ log = << >>
  /\ provider = "none"

CalculateProcessDuration ==
  Returns("calculateProcessDuration",
          calculateProcessDuration(KPICalculator(options), data,
                                   config.durationField))

NextDuration == CalculateProcessDuration

SpecDuration == InitDuration /\ [][NextDuration]_vars

\* the values calculateProcessDuration keeps as valid: the numbers that
\* Number() makes of the duration fields, NaN left out (C4 is about which
\* records these are)
ValidDurations ==
  LET idx == {i \in 1..Len(data) :
                ~IsNaN(NumberOf(Get(data[i], config.durationField)))}
      nth(k) == CHOOSE i \in idx : Cardinality({j \in idx : j < i}) = k - 1
  IN  [k \in 1..Cardinality(idx) |->
         NumberOf(Get(data[nth(k)], config.durationField))]

IsNumericField(v) ==
  \/ v.t = "number" /\ ~IsNaN(v.n)
  \/ v.t = "string" /\ Trim(v.s) # <<>> /\ ~IsNaN(StringToNumber(v.s))

\* C4: a record whose duration field is not numeric (missing, null, empty
\* string, boolean, non-numeric text) adds nothing to sampleSize, to outliers
\* or to any statistic: the result is the result for the records with a
\* numeric duration field
DurationIgnoresNonNumericFields ==
  call = "calculateProcessDuration" =>
    LET numeric(item) == IsNumericField(Get(item, config.durationField))
        kept == SelectSeq(data, numeric)
    IN  /\ ret.sampleSize = Len(kept)
        /\ ret = calculateProcessDuration(KPICalculator(options), kept,
                                          config.durationField)

(***************************************************************************)
(* identifyBestPerformers and generateDashboardAnalytics on bounded inputs *)
(***************************************************************************)
MaxPerformanceRecords == 6

ProcessTypeB == Str(<<"B">>)

Pass == Str(<<"P", "a", "s", "s">>)

\* the records a dataset is drawn from: process types "B" and 1 with boolean
\* success fields, or process type "B" with the success field "Pass" and no
\* process type with the success fields "Pass" and true
RecordAlphabets ==
  {{[ProcessType |-> p, Success |-> v, Duration |-> JSNum(Num(10))] :
      p \in {ProcessTypeB, JSNum(Num(1))}, v \in {Bool(TRUE), Bool(FALSE)}},
   {[ProcessType |-> ProcessTypeB, Success |-> Pass, Duration |-> JSNum(Num(10))],
    [ProcessType |-> Undefined, Success |-> Pass, Duration |-> JSNum(Num(10))],
    [ProcessType |-> Undefined, Success |-> Bool(TRUE), Duration |-> JSNum(Num(10))]}}

Datasets == UNION {SeqsUpTo(A, MaxPerformanceRecords) : A \in RecordAlphabets}

InitBest ==
  /\ data \in Datasets
  /\ config \in {[NoConfig EXCEPT !.higherIsBetter = h] : h \in BOOLEAN}
  /\ options = << >>
  /\ xs = << >>
  /\ ys = << >>
  /\ engine = "insertion"
  /\ earlier = << >>
  /\ call = "none"
  /\ ret = "none"
  /\ processing = << >>
  /\ log = << >>
  /\ provider = "none"

IdentifyBestPerformers ==
  Returns("identifyBestPerformers",
          identifyBestPerformers(ProcessAnalytics(options), data,
                                 config.processTypeField, config.performanceField,
                                 config.higherIsBetter))

NextBest == IdentifyBestPerformers

SpecBest == InitBest /\ [][NextBest]_vars

\* no record of a dataset has a time field: every comparison of the sorts by
\* time is NaN and both algorithms leave the list as it is
InitDashboard ==
  /\ data \in Datasets
  /\ config = NoConfig
  /\ options = << >>
  /\ xs = << >>
  /\ ys = << >>
  /\ engine = "insertion"
  /\ earlier = << >>
  /\ call = "none"
  /\ ret = "none"
  /\ processing = << >>
  /\ log = << >>
  /\ provider = "none"

GenerateDashboardAnalytics ==
  Returns("generateDashboardAnalytics",
          generateDashboardAnalytics(AnalyticsService(options), data, config))

NextDashboard == GenerateDashboardAnalytics

SpecDashboard == InitDashboard /\ [][NextDashboard]_vars

\* C5: every entry of processPerformance has rank >= 1 and percentileBetter
\* in [0, 100], whatever the type of the values of the success field
DashboardRanksInRange ==
  call = "generateDashboardAnalytics" =>
    \A i \in 1..Len(ret.processPerformance) :
      /\ ret.processPerformance[i].rank >= 1
      /\ Le(Num(0), ret.processPerformance[i].percentileBetter)
      /\ Le(ret.processPerformance[i].percentileBetter, Num(100))

\* the process types of the dataset, stringified, "Unknown" for none
ProcessTypesOf(records, field) ==
  {GroupKey(records[i], field) : i \in 1..Len(records)}

BestPerformersRankedByMean ==
  call = "identifyBestPerformers" =>
    LET field == config.processTypeField
        typeOf(item) == GroupKey(item, field)
        appearing == FirstOccurrences(Map(data, typeOf))
        values(type) ==
          NumericValues(GroupItems(data, field, type), config.performanceField)
        enough(type) == Len(values(type)) >= 3
        before(a, b) ==
          IF config.higherIsBetter
          THEN Gt(calculateMean(values(a)), calculateMean(values(b)))
          ELSE Lt(calculateMean(values(a)), calculateMean(values(b)))
        ranked == SortBy(Filter(appearing, enough), before)
    IN  /\ Len(ret) = Len(ranked)
        /\ \A i \in 1..Len(ret) :
             ret[i].rank = i /\ ret[i].processType = ranked[i]

(***************************************************************************)
(* analyzeCorrelations on bounded inputs                                   *)
(***************************************************************************)
MaxCorrelationRecords == 3

ParameterRecords ==
  {[P1 |-> JSNum(Num(a)), P2 |-> JSNum(Num(b)), P3 |-> c] :
     a \in {0, 1}, b \in {0, 1}, c \in {JSNum(Num(1)), Null, Undefined}}

InitCorrelations ==
  /\ data \in SeqsUpTo(ParameterRecords, MaxCorrelationRecords)
  /\ config = [NoConfig EXCEPT !.parameterFields = <<"P1", "P2", "P3">>]
  /\ \/ options = << >>
     \/ options = [minCorrelationStrength |-> JSNum(Num(0))]
     \/ options = [significanceThreshold |-> JSNum(Num(0))]
  /\ xs = << >>
  /\ ys = << >>
  /\ engine = "insertion"
  /\ earlier = << >>
  /\ call = "none"
  /\ ret = "none"
  /\ processing = << >>
  /\ log = << >>
  /\ provider = "none"

AnalyzeCorrelations ==
  Returns("analyzeCorrelations",
          analyzeCorrelations(ProcessAnalytics(options), data,
                              config.parameterFields))

NextCorrelations == AnalyzeCorrelations

SpecCorrelations == InitCorrelations /\ [][NextCorrelations]_vars

CorrelationSignificantAsConfigured ==
  call = "analyzeCorrelations" =>
    \A m \in 1..Len(ret) :
      ret[m].significant =
        SignificantAsConfigured(ProcessAnalytics(options),
                                ret[m].correlationCoefficient, ret[m].pValue)

(***************************************************************************)
(* calculateLinearRegression on bounded inputs                             *)
(***************************************************************************)
MaxRegressionPoints == 3

RegressionValues == {Num(0), Num(1), Num(2)}

InitRegression ==
  /\ data = << >>
  /\ config = NoConfig
  /\ options = << >>
  /\ xs \in SeqsUpTo(RegressionValues, MaxRegressionPoints)
  /\ ys \in SeqsUpTo(RegressionValues, MaxRegressionPoints)
  /\ engine = "insertion"
  /\ earlier = << >>
  /\ call = "none"
  /\ ret = "none"
  /\ processing = << >>
  /\ log = << >>
  /\ provider = "none"

KPICalculateLinearRegression ==
  Returns("KPICalculator.calculateLinearRegression",
          calculateLinearRegression(xs, ys))

ProcessAnalyticsCalculateLinearRegression ==
  Returns("ProcessAnalytics.calculateLinearRegression",
          calculateLinearRegressionPA(xs, ys))

NextRegression ==
  \/ KPICalculateLinearRegression
  \/ ProcessAnalyticsCalculateLinearRegression

SpecRegression == InitRegression /\ [][NextRegression]_vars

\* C10: the regression of a degenerate input (empty, lengths that differ,
\* all x equal) has slope, intercept and rSquared 0, and no regression has a
\* component that is NaN or infinite
RegressionZeroWhenDegenerate ==
  call \in {"KPICalculator.calculateLinearRegression",
            "ProcessAnalytics.calculateLinearRegression"} =>
    LET degenerate == \/ Len(xs) = 0
                      \/ Len(xs) # Len(ys)
                      \/ \A i, j \in 1..Len(xs) : xs[i] = xs[j]
    IN  /\ degenerate =>
             ret = [slope |-> Num(0), intercept |-> Num(0), rSquared |-> Num(0)]
        /\ IsFinite(ret.slope) /\ IsFinite(ret.intercept) /\ IsFinite(ret.rSquared)

(***************************************************************************)
(* generatePredictions on bounded inputs                                   *)
(***************************************************************************)
MaxTimeRecords == 6

\* the timestamp of day k, in milliseconds
Day(k) == JSNum(Num(k * MillisecondsPerDay))

Unparsable == Str(<<"x">>)

\* records of three days and one whose timestamp holds no date; P2 is
\* measured on the second day and in the record without a date
TimeRecords ==
  {[Timestamp |-> Day(0), P1 |-> JSNum(Num(1))],
   [Timestamp |-> Day(1), P1 |-> JSNum(Num(1)), P2 |-> JSNum(Num(1))],
   [Timestamp |-> Day(1), P1 |-> JSNum(Num(2)), P2 |-> JSNum(Num(2))],
   [Timestamp |-> Day(2), P1 |-> JSNum(Num(3))],
   [Timestamp |-> Unparsable, P1 |-> JSNum(Num(1)), P2 |-> JSNum(Num(1))]}

\* one sample a day over 10 days, value = 2 * day + 5
ScenarioLinear ==
  [d \in 1..10 |-> [Timestamp |-> Day(d - 1), P1 |-> JSNum(Num((2 * (d - 1)) + 5))]]

InitPredictions ==
  /\ data \in SeqsUpTo(TimeRecords, MaxTimeRecords) \cup {ScenarioLinear}
  /\ config = [NoConfig EXCEPT !.parameterFields = <<"P1", "P2">>]
  /\ options = << >>
  /\ xs = << >>
  /\ ys = << >>
  /\ engine \in Engines
  /\ earlier = << >>
  /\ call = "none"
  /\ ret = "none"
  /\ processing = << >>
  /\ log = << >>
  /\ provider = "none"

GeneratePredictions ==
  Returns("generatePredictions",
          generatePredictions(ProcessAnalytics(options), data, config.timeField,
                              config.parameterFields))

NextPredictions == GeneratePredictions

SpecPredictions == InitPredictions /\ [][NextPredictions]_vars

\* C11: every result of generatePredictions has a reliability that is a
\* number (not NaN) between 0 and 1
PredictionsReliable ==
  call = "generatePredictions" =>
    \A i \in 1..Len(ret) :
      /\ ~SurdIsNaN(ret[i].reliability)
      /\ NumLeSurd(Num(0), ret[i].reliability)
      /\ SurdLeNum(ret[i].reliability, Num(1))

\* C13: for the series of 10 days with value = 2 * day + 5 and the default
\* horizon of 3, the predicted value of the parameter is 2 * (9 + 3) + 5 = 29
PredictsLinearSeries ==
  (call = "generatePredictions" /\ data = ScenarioLinear) =>
    /\ Len(ret) = 1
    /\ ret[1].parameter = "P1"
    /\ ret[1].predictedValue = Num(29)

\* the records with a numeric value of param and a timestamp that can be
\* parsed
ValidPoints(records, timeField, param) ==
  LET kept(item) == HasValueAndTime(item, timeField, param)
  IN  Filter(records, kept)

\* value is the value of param in a record of points with the latest time
IsLatestValue(points, timeField, param, value) ==
  \E i \in 1..Len(points) :
    /\ NumberOf(Get(points[i], param)) = value
    /\ \A j \in 1..Len(points) :
         Le(DateTime(Get(points[j], timeField)), DateTime(Get(points[i], timeField)))

\* C14: generatePredictions returns one result, in the order of the
\* parameters, for each parameter with at least 5 records that have a
\* numeric value and a timestamp that can be parsed, and none for the
\* others; currentValue is the value of the latest such record and
\* predictedChange is predictedValue - currentValue
PredictionsOnePerParameter ==
  call = "generatePredictions" =>
    LET enough(param) == Len(ValidPoints(data, config.timeField, param)) >= 5
        expected == Filter(config.parameterFields, enough)
    IN  /\ Len(ret) = Len(expected)
        /\ \A i \in 1..Len(ret) :
             /\ ret[i].parameter = expected[i]
             /\ IsLatestValue(ValidPoints(data, config.timeField, expected[i]),
                              config.timeField, expected[i], ret[i].currentValue)
             /\ ret[i].predictedChange
                  = Sub(ret[i].predictedValue, ret[i].currentValue)

(***************************************************************************)
(* detectStepChangePattern on series with one step                         *)
(***************************************************************************)
SegmentLength == 10

\* the amplitudes of the noise of a segment
NoiseAmplitudes ==
  {Num(0), <<1, 10>>, <<-1, 10>>, <<1, 5>>, <<-1, 5>>, <<1, 2>>, <<-1, 2>>,
   Num(1), Num(-1)}

\* a series in time order: SegmentLength values about 10, then SegmentLength
\* values about 20, the noise alternating between +amplitude and -amplitude
StepSeries(before, after) ==
  [i \in 1..(2 * SegmentLength) |->
     [Timestamp |-> Day(i - 1),
      P1 |-> JSNum(Add(IF i <= SegmentLength THEN Num(10) ELSE Num(20),
                       Mul(IF i <= SegmentLength THEN before ELSE after,
                           IF i % 2 = 0 THEN Num(1) ELSE Num(-1))))]]

InitStepChange ==
  /\ data \in {StepSeries(before, after) : before \in NoiseAmplitudes, after \in NoiseAmplitudes}
  /\ config = [NoConfig EXCEPT !.parameterFields = <<"P1">>]
  /\ options = << >>
  /\ xs = << >>
  /\ ys = << >>
  /\ engine = "insertion"
  /\ earlier = << >>
  /\ call = "none"
  /\ ret = "none"
  /\ processing = << >>
  /\ log = << >>
  /\ provider = "none"

DetectStepChangePattern ==
  Returns("detectStepChangePattern",
          detectStepChangePattern(ProcessAnalytics(options), data,
                                  config.parameterFields[1]))

NextStepChange == DetectStepChangePattern

SpecStepChange == InitStepChange /\ [][NextStepChange]_vars

\* C12: for a series of 20 points, the first 10 about 10 and the last 10
\* about 20, detectStepChangePattern with default options reports a
\* step_change with changePoint in 9..11, a relative change of about 100 %
\* and a p-value below 0.05
StepChangeDetected ==
  call = "detectStepChangePattern" =>
    /\ ret # Null
    /\ ret.patternType = "step_change"
    /\ ret.supportingData[1].changePoint \in 9..11
    /\ Ge(ret.supportingData[1].relativeChange, Num(90))
    /\ Le(ret.supportingData[1].relativeChange, Num(110))
    /\ Lt(ret.supportingData[1].pValue, <<1, 20>>)

(***************************************************************************)
(* The operations that sort by time, on bounded inputs                     *)
(***************************************************************************)
MaxSeriesRecords == 5

InitTimeSeries ==
  /\ data \in SeqsUpTo(TimeRecords, MaxSeriesRecords)
  /\ config = [NoConfig EXCEPT !.parameterFields = <<"P1", "P2">>,
                               !.valueField = "P1"]
  /\ options = << >>
  /\ xs = << >>
  /\ ys = << >>
  /\ engine \in Engines
  /\ earlier = << >>
  /\ call = "none"
  /\ ret = "none"
  /\ processing = << >>
  /\ log = << >>
  /\ provider = "none"

IdentifyTrends ==
  Returns("identifyTrends",
          identifyTrends(data, config.timeField, config.valueField, config.periods))

RecognizePatterns ==
  Returns("recognizePatterns",
          recognizePatterns(ProcessAnalytics(options), data, config.timeField,
                            config.parameterFields))

NextTimeSeries == IdentifyTrends \/ RecognizePatterns \/ GeneratePredictions

SpecTimeSeries == InitTimeSeries /\ [][NextTimeSeries]_vars

\* the records whose timestamp can be parsed
HasTime(item) == ~IsNaN(DateTime(Get(item, "Timestamp")))

\* C15: identifyTrends, recognizePatterns and generatePredictions leave out
\* the records whose timestamp cannot be parsed: the result is that of the
\* same call on the records that have a timestamp
TimeSeriesIgnoreUnparsable ==
  /\ call = "identifyTrends" =>
       ret = identifyTrends(Filter(data, HasTime), config.timeField,
                            config.valueField, config.periods)
  /\ call = "recognizePatterns" =>
       ret = recognizePatterns(ProcessAnalytics(options), Filter(data, HasTime),
                               config.timeField, config.parameterFields)
  /\ call = "generatePredictions" =>
       ret = generatePredictions(ProcessAnalytics(options), Filter(data, HasTime),
                                 config.timeField, config.parameterFields)

(***************************************************************************)
(* Operations called with an empty field role                              *)
(***************************************************************************)
MaxRoleRecords == 3

RoleRecords ==
  {[Duration |-> duration, Success |-> success] :
     duration \in {JSNum(Num(10)), JSNum(Num(30)), Undefined},
     success \in {Bool(TRUE), Bool(FALSE)}}

InitFieldRoles ==
  /\ data \in SeqsUpTo(RoleRecords, MaxRoleRecords)
  /\ config \in {[NoConfig EXCEPT !.durationField = durationField,
                                  !.successField = successField] :
                   durationField \in {"Duration", ""},
                   successField \in {"Success", ""}}
  /\ options = << >>
  /\ xs = << >>
  /\ ys = << >>
  /\ engine = "insertion"
  /\ earlier = << >>
  /\ call = "none"
  /\ ret = "none"
  /\ processing = << >>
  /\ log = << >>
  /\ provider = "none"

NextFieldRoles == CalculateProcessDuration \/ CalculateRFT

SpecFieldRoles == InitFieldRoles /\ [][NextFieldRoles]_vars

\* the outcome of a call that raises a configuration error
ConfigurationError == [raised |-> "configuration error"]

\* C16: an operation called with an empty field role fails with a
\* configuration error instead of returning a result
EmptyRoleRaises ==
  /\ (call = "calculateProcessDuration" /\ config.durationField = "") =>
       ret = ConfigurationError
  /\ (call = "calculateRFT" /\ config.successField = "") =>
       ret = ConfigurationError

(***************************************************************************)
(* Every public operation, on lists of zero and more records               *)
(***************************************************************************)
MaxAnyRecords == 2

AnyRecords ==
  {[ProcessType |-> ProcessTypeB, Success |-> success, Duration |-> JSNum(Num(10)),
    Timestamp |-> timestamp, P1 |-> JSNum(Num(1)), P2 |-> JSNum(Num(2))] :
     success \in {Bool(TRUE), Bool(FALSE)}, timestamp \in {Day(0), Unparsable}}

InitOperations ==
  /\ data \in SeqsUpTo(AnyRecords, MaxAnyRecords)
  /\ config = [NoConfig EXCEPT !.parameterFields = <<"P1", "P2">>,
                               !.valueField = "Duration"]
  /\ \/ options = << >>
     \/ options = [outlierDetection |-> Bool(FALSE)]
     \/ options = [predictionHorizon |-> JSNum(Num(1))]
  /\ xs = << >>
  /\ ys = << >>
  /\ engine \in Engines
  /\ earlier = << >>
  /\ call = "none"
  /\ ret = "none"
  /\ processing = << >>
  /\ log = << >>
  /\ provider = "none"

AnalyzeVariance ==
  Returns("analyzeVariance",
          analyzeVariance(data, config.processTypeField, config.valueField))

NextOperations ==
  \/ CalculateRFT
  \/ CalculateProcessDuration
  \/ AnalyzeVariance
  \/ IdentifyTrends
  \/ AnalyzeCorrelations
  \/ RecognizePatterns
  \/ GeneratePredictions
  \/ IdentifyBestPerformers
  \/ GenerateDashboardAnalytics

SpecOperations == InitOperations /\ [][NextOperations]_vars

\* a zero rate with the interval (0, 0) over no record
IsZeroRate(result) ==
  /\ result.rate = Num(0)
  /\ result.confidenceInterval = <<Exact(Num(0)), Exact(Num(0))>>
  /\ result.sampleSize = 0

\* C17: called with zero records, every public operation returns its
\* neutral result: a zero rate with the interval (0, 0), a zeroed duration,
\* the trend 'none' without periods, and empty lists
EmptyDataNeutral ==
  data = <<>> =>
    /\ call = "calculateRFT" => IsZeroRate(ret)
    /\ call = "calculateProcessDuration" =>
         /\ ret.average = Num(0) /\ ret.median = Num(0)
         /\ ret.min = Num(0) /\ ret.max = Num(0)
         /\ ret.stdDev = ZeroRoot
         /\ ret.confidenceInterval = <<Exact(Num(0)), Exact(Num(0))>>
         /\ ret.outliers = <<>>
         /\ ret.sampleSize = 0
    /\ call = "identifyTrends" => (ret.trend = "none" /\ ret.periods = <<>>)
    /\ call \in {"analyzeVariance", "analyzeCorrelations", "recognizePatterns",
                 "generatePredictions", "identifyBestPerformers"} => ret = <<>>
    /\ call = "generateDashboardAnalytics" =>
         /\ IsZeroRate(ret.overallRFT)
         /\ ret.processPerformance = <<>>
         /\ ret.trends.trend = "none" /\ ret.trends.periods = <<>>
         /\ ret.patterns = <<>>
         /\ ret.correlations = <<>>
         /\ ret.predictions = <<>>

\* the dashboard has been computed from zero records
DashboardOfNoRecords ==
  /\ data = <<>>
  /\ call = "generateDashboardAnalytics"
  /\ ret.trends.trend = "none"
  /\ ret.overallRFT.sampleSize = 0

(***************************************************************************)
(* The defaults of the options, through AnalyticsService                   *)
(***************************************************************************)
MaxDefaultsRecords == 5

\* the options useMemoizedAnalytics constructs the service with: the six
\* keys, each with the value of the hook's options, undefined when absent
UseMemoizedAnalyticsOptions(hookOptions) ==
  [k \in {"confidenceLevel", "outlierDetection", "outlierThreshold",
          "significanceThreshold", "minCorrelationStrength", "predictionHorizon"} |->
     Get(hookOptions, k)]

InitDefaults ==
  /\ data \in {[i \in DOMAIN s |-> [Duration |-> JSNum(Num(s[i]))]] :
                 s \in SeqsUpTo({10, 11, 30}, MaxDefaultsRecords)}
  /\ config = NoConfig
  /\ options \in {<< >>,
                  [outlierDetection |-> Undefined],
                  [outlierDetection |-> Bool(FALSE)],
                  UseMemoizedAnalyticsOptions(<< >>),
                  UseMemoizedAnalyticsOptions([outlierDetection |-> Bool(TRUE)])}
  /\ xs = << >>
  /\ ys = << >>
  /\ engine = "insertion"
  /\ earlier = << >>
  /\ call = "none"
  /\ ret = "none"
  /\ processing = << >>
  /\ log = << >>
  /\ provider = "none"

\* AnalyticsService.calculateProcessDuration
ServiceCalculateProcessDuration ==
  Returns("AnalyticsService.calculateProcessDuration",
          calculateProcessDuration(AnalyticsService(options).kpiCalculator, data,
                                   config.durationField))

NextDefaults == ServiceCalculateProcessDuration

SpecDefaults == InitDefaults /\ [][NextDefaults]_vars

\* C18: when the service is constructed with outlierDetection absent or
\* undefined, calculateProcessDuration detects outliers with the threshold
\* 1.5 and the confidence level 0.95: its result is that of a calculator
\* with these three options
DefaultsWhenUnspecified ==
  (/\ call = "AnalyticsService.calculateProcessDuration"
   /\ Get(options, "outlierDetection") = Undefined) =>
    ret = calculateProcessDuration(
            [confidenceLevel |-> JSNum(<<19, 20>>),
             outlierDetection |-> Bool(TRUE),
             outlierThreshold |-> JSNum(<<3, 2>>)],
            data, config.durationField)

(***************************************************************************)
(* The construction of the service                                         *)
(***************************************************************************)
\* confidence levels inside and outside (0, 1)
ConfidenceLevels ==
  {<<19, 20>>, <<9, 10>>, <<99, 100>>, Num(0), Num(1), Num(2), Num(-1)}

InitConstruction ==
  /\ data = << >>
  /\ config = NoConfig
  /\ options \in {[confidenceLevel |-> JSNum(c), outlierThreshold |-> JSNum(t),
                   significanceThreshold |-> JSNum(s), predictionHorizon |-> JSNum(h)] :
                    c \in ConfidenceLevels, t \in {<<3, 2>>, Num(-1)},
                    s \in {<<1, 20>>, Num(5)}, h \in {Num(3), Num(0)}}
  /\ xs = << >>
  /\ ys = << >>
  /\ engine = "insertion"
  /\ earlier = << >>
  /\ call = "none"
  /\ ret = "none"
  /\ processing = << >>
  /\ log = << >>
  /\ provider = "none"

\* new AnalyticsService(options)
NewAnalyticsService == Returns("new AnalyticsService", AnalyticsService(options))

NextConstruction == NewAnalyticsService

SpecConstruction == InitConstruction /\ [][NextConstruction]_vars

\* the outcome of a construction that rejects its options
InvalidOptionsError == [raised |-> "invalid options"]

\* C19: the options are validated at construction: a confidenceLevel
\* outside (0, 1) is rejected
ConstructionValidatesOptions ==
  (/\ call = "new AnalyticsService"
   /\ ~(Gt(options.confidenceLevel.n, Num(0)) /\ Lt(options.confidenceLevel.n, Num(1)))) =>
    ret = InvalidOptionsError

(***************************************************************************)
(* Repeated and interleaved calls on one service                           *)
(***************************************************************************)
MaxRepeatRecords == 3

MaxCalls == 2

RepeatRecords ==
  {[ProcessType |-> ProcessTypeB, Success |-> Bool(st[1]), Duration |-> JSNum(Num(10)),
    Timestamp |-> st[2], P1 |-> JSNum(Num(1))] :
     st \in {<<TRUE, Day(0)>>, <<TRUE, Day(1)>>, <<FALSE, Day(1)>>,
             <<TRUE, Unparsable>>}}

InitRepeat ==
  /\ data \in SeqsUpTo(RepeatRecords, MaxRepeatRecords)
  /\ config = [NoConfig EXCEPT !.parameterFields = <<"P1">>]
  /\ options \in {<< >>, [outlierDetection |-> Bool(FALSE)]}
  /\ xs = << >>
  /\ ys = << >>
  /\ engine \in Engines
  /\ earlier = << >>
  /\ call = "none"
  /\ ret = "none"
  /\ processing = << >>
  /\ log = << >>
  /\ provider = "none"

\* the list the caller handed in, as a sort by time over it in place would
\* leave it
RecordsSortedInPlace(records, timeField) == SortByTime(records, timeField)

\* the list the caller handed in, after the call: the sorts by time work on
\* the copy [...data], and no other step assigns to the list or its records
RecordsAfterCall(records, timeField) == records

\* a call on the service, after any other: the service keeps its options
Repeated(name, value) ==
  /\ call' = name
  /\ ret' = value
  /\ data' = RecordsAfterCall(data, config.timeField)
  /\ UNCHANGED <<config, options, xs, ys, engine, processing, log, provider>>

RepeatDashboardAnalytics ==
  /\ Len(earlier) < MaxCalls
  /\ Repeated("generateDashboardAnalytics",
              generateDashboardAnalytics(AnalyticsService(options), data, config))
  /\ earlier' = Append(earlier, ret')

RepeatIdentifyTrends ==
  /\ UNCHANGED earlier
  /\ Repeated("identifyTrends",
              identifyTrends(data, config.timeField, config.successField,
                             DashboardPeriods))

NextRepeat == RepeatDashboardAnalytics \/ RepeatIdentifyTrends

SpecRepeat == InitRepeat /\ [][NextRepeat]_vars

MaxVarianceRecords == 4

ProcessTypeA == Str(<<"A">>)

VarianceRecords ==
  {[ProcessType |-> processType, Duration |-> duration] :
     processType \in {ProcessTypeA, ProcessTypeB},
     duration \in {JSNum(Num(10)), JSNum(Num(30)), Undefined}}

InitVariance ==
  /\ data \in SeqsUpTo(VarianceRecords, MaxVarianceRecords)
  /\ config = [NoConfig EXCEPT !.valueField = "Duration"]
  /\ options = << >>
  /\ xs = << >>
  /\ ys = << >>
  /\ engine = "insertion"
  /\ earlier = << >>
  /\ call = "none"
  /\ ret = "none"
  /\ processing = << >>
  /\ log = << >>
  /\ provider = "none"

NextVariance == AnalyzeVariance

SpecVariance == InitVariance /\ [][NextVariance]_vars

\* all numeric values of the records are equal, and there is one at least
AllValuesEqual(records, valueField) ==
  LET values == NumericValues(records, valueField)
  IN  /\ Len(values) >= 1
      /\ \A i \in 1..Len(values) : values[i] = values[1]

\* C21: when all numeric values of the dataset are equal, every group that
\* analyzeVariance returns has significantlyDifferent = false and a pValue
\* that is a number in [0, 1]
VarianceNeutralOnZeroVariance ==
  (call = "analyzeVariance" /\ AllValuesEqual(data, config.valueField)) =>
    \A i \in 1..Len(ret) :
      /\ ret[i].significantlyDifferent = FALSE
      /\ Le(Num(0), ret[i].pValue)
      /\ Le(ret[i].pValue, Num(1))

(***************************************************************************)
(* recognizePatterns on bounded inputs                                     *)
(***************************************************************************)
MaxPatternRecords == 6

CycleRecords == 12

CorrelatedRecords == 33

\* the values a parameter takes in the short series and in the cycles
PatternValues == {Num(0), Num(1), Num(2)}

\* the records of a series in time order, one a millisecond, P2 a copy of P1
\* where copied, absent otherwise
SeriesOf(values, copied) ==
  [i \in 1..Len(values) |->
     IF copied
     THEN [Timestamp |-> JSNum(Num(i - 1)), P1 |-> JSNum(values[i]),
           P2 |-> JSNum(values[i])]
     ELSE [Timestamp |-> JSNum(Num(i - 1)), P1 |-> JSNum(values[i])]]

\* n values that repeat the cycle
Cycle(cycle, n) == [i \in 1..n |-> cycle[((i - 1) % Len(cycle)) + 1]]

PatternSeries ==
  {SeriesOf(values, copied) :
     values \in SeqsUpTo(PatternValues, MaxPatternRecords), copied \in BOOLEAN}
    \cup {SeriesOf(Cycle(cycle, CycleRecords), FALSE) :
            cycle \in [1..3 -> PatternValues] \cup [1..4 -> PatternValues]}
    \cup {SeriesOf(Cycle(cycle, CorrelatedRecords), TRUE) :
            cycle \in [1..2 -> PatternValues]}
    \cup {StepSeries(before, after) : before \in {Num(0), Num(1)}, after \in {Num(0), Num(1)}}

InitPatterns ==
  /\ data \in PatternSeries
  /\ config = [NoConfig EXCEPT !.parameterFields = <<"P1", "P2">>]
  /\ options = << >>
  /\ xs = << >>
  /\ ys = << >>
  /\ engine = "insertion"
  /\ earlier = << >>
  /\ call = "none"
  /\ ret = "none"
  /\ processing = << >>
  /\ log = << >>
  /\ provider = "none"

NextPatterns == RecognizePatterns \/ AnalyzeCorrelations

SpecPatterns == InitPatterns /\ [][NextPatterns]_vars

\* the patterns of the list that are correlation patterns, in their order
CorrelationPatterns(patterns) ==
  LET isCorrelation(pattern) == pattern.patternType = "correlation"
  IN  Filter(patterns, isCorrelation)

\* the significant results of analyzeCorrelations on the same data
SignificantPairs ==
  Filter(analyzeCorrelations(ProcessAnalytics(options), data, config.parameterFields),
         IsSignificant)

\* C22: every pattern that recognizePatterns returns has one of the four
\* pattern types and a confidence in [0, 1]; there is exactly one
\* correlation pattern for each significant pair of analyzeCorrelations on
\* the same data, and the correlation patterns come after all the others
PatternsWellFormed ==
  call = "recognizePatterns" =>
    /\ \A i \in 1..Len(ret) :
         /\ ret[i].patternType \in {"cyclical", "trend", "step_change", "correlation"}
         /\ Le(Num(0), ret[i].confidence)
         /\ Le(ret[i].confidence, Num(1))
    /\ Len(CorrelationPatterns(ret)) = Len(SignificantPairs)
    /\ \A k \in 1..Len(SignificantPairs) :
         CorrelationPatterns(ret)[k].affectedParameters =
           <<SignificantPairs[k].parameter1, SignificantPairs[k].parameter2>>
    /\ \A i \in 1..Len(ret) : \A j \in 1..Len(ret) :
         (i < j /\ ret[i].patternType = "correlation") =>
           ret[j].patternType = "correlation"

(***************************************************************************)
(* ExcelParser.detectSchema (src/unnamed/part_006).  A header is a string, *)
(* a row a function from the headers to values.  The regular expressions   *)
(* of the field searches are lists of literal parts between which one      *)
(* optional "_" or blank may stand ([_\s]?; the blank is the only white    *)
(* space of the model's strings); all of them are case-insensitive.        *)
(***************************************************************************)
\* s.includes(part)
Includes(s, part) ==
  \E i \in 0..(Len(s) - Len(part)) : SubSeq(s, i + 1, i + Len(part)) = part

\* the strings that the parts form with nothing, "_" or a blank between
\* two parts
RECURSIVE JoinedForms(_)
JoinedForms(parts) ==
  IF Len(parts) = 1 THEN {parts[1]}
  ELSE {parts[1] \o separator \o rest :
          separator \in {<<>>, <<"_">>, <<" ">>}, rest \in JoinedForms(Tail(parts))}

\* pattern.test(header) for a pattern /part[_\s]?part.../i, or /^part$/i
\* where whole
Test(pattern, header) ==
  IF pattern.whole THEN toLowerCase(header) = pattern.parts[1]
  ELSE \E form \in JoinedForms(pattern.parts) : Includes(toLowerCase(header), form)

Pattern(parts) == [parts |-> parts, whole |-> FALSE]

WholePattern(part) == [parts |-> <<part>>, whole |-> TRUE]

\* headers.find(header => pattern.test(header)): the index of the first
\* match, 0 for undefined
FindHeader(headers, pattern) ==
  LET matches == {i \in 1..Len(headers) : Test(pattern, headers[i])}
  IN  IF matches = {} THEN 0 ELSE CHOOSE i \in matches : \A j \in matches : i <= j

\* for (const pattern of patterns) { const match = headers.find(...); if
\* (match) return match; }: the match of the first pattern that has one, as
\* a string value, undefined if no pattern has one (an empty header is no
\* match)
RECURSIVE FindByName(_, _)
FindByName(headers, patterns) ==
  IF patterns = <<>> THEN Undefined
  ELSE IF FindHeader(headers, Head(patterns)) # 0
          /\ headers[FindHeader(headers, Head(patterns))] # <<>>
       THEN Str(headers[FindHeader(headers, Head(patterns))])
  ELSE FindByName(headers, Tail(patterns))

batchIdPatterns ==
  <<Pattern(<<<<"b", "a", "t", "c", "h">>, <<"i", "d">>>>),
    Pattern(<<<<"b", "a", "t", "c", "h">>, <<"n", "u", "m", "b", "e", "r">>>>),
    Pattern(<<<<"l", "o", "t">>, <<"n", "u", "m", "b", "e", "r">>>>),
    Pattern(<<<<"l", "o", "t">>, <<"i", "d">>>>),
    WholePattern(<<"i", "d">>),
    Pattern(<<<<"i", "d", "e", "n", "t", "i", "f", "i", "e", "r">>>>)>>

timestampPatterns ==
  <<Pattern(<<<<"d", "a", "t", "e">>>>),
    Pattern(<<<<"t", "i", "m", "e">>>>),
    Pattern(<<<<"t", "i", "m", "e", "s", "t", "a", "m", "p">>>>),
    Pattern(<<<<"c", "r", "e", "a", "t", "e", "d">>, <<"a", "t">>>>),
    Pattern(<<<<"p", "r", "o", "c", "e", "s", "s", "e", "d">>, <<"a", "t">>>>)>>

processTypePatterns ==
  <<Pattern(<<<<"p", "r", "o", "c", "e", "s", "s">>, <<"t", "y", "p", "e">>>>),
    Pattern(<<<<"p", "r", "o", "c", "e", "s", "s">>>>),
    Pattern(<<<<"t", "y", "p", "e">>>>),
    Pattern(<<<<"c", "a", "t", "e", "g", "o", "r", "y">>>>),
    Pattern(<<<<"c", "l", "a", "s", "s", "i", "f", "i", "c", "a", "t", "i", "o", "n">>>>)>>

departmentPatterns ==
  <<Pattern(<<<<"d", "e", "p", "a", "r", "t", "m", "e", "n", "t">>>>),
    Pattern(<<<<"d", "e", "p", "t">>>>),
    Pattern(<<<<"d", "i", "v", "i", "s", "i", "o", "n">>>>),
    Pattern(<<<<"u", "n", "i", "t">>>>),
    Pattern(<<<<"s", "e", "c", "t", "i", "o", "n">>>>)>>

rftStatusPatterns ==
  <<Pattern(<<<<"r", "f", "t">>, <<"s", "t", "a", "t", "u", "s">>>>),
    Pattern(<<<<"r", "i", "g", "h", "t">>, <<"f", "i", "r", "s", "t">>, <<"t", "i", "m", "e">>>>),
    Pattern(<<<<"s", "t", "a", "t", "u", "s">>>>),
    Pattern(<<<<"r", "e", "s", "u", "l", "t">>>>),
    Pattern(<<<<"p", "a", "s", "s">>, <<"f", "a", "i", "l">>>>),
    Pattern(<<<<"o", "u", "t", "c", "o", "m", "e">>>>)>>

\* rows.map(row => row[header])
ColumnValues(rows, header) ==
  [i \in 1..Len(rows) |->
     IF header \in DOMAIN rows[i] THEN rows[i][header] ELSE Undefined]

\* rows.map(row => String(row[header])).filter(Boolean)
ColumnStrings(rows, header) ==
  LET string(i) == StringOf(ColumnValues(rows, header)[i])
      filled(i) == string(i) # <<>>
  IN  Map(Filter([i \in 1..Len(rows) |-> i], filled), string)

\* the first header for which the test on its column holds, as a string
\* value, undefined if there is none
FirstHeader(headers, Holds(_)) ==
  LET found == {i \in 1..Len(headers) : Holds(headers[i])}
  IN  IF found = {} THEN Undefined
      ELSE Str(headers[CHOOSE i \in found : \A j \in found : i <= j])

IsUpper(c) == \E i \in 1..26 : Upper[i] = c

AllDigits(s) == s # <<>> /\ \A i \in 1..Len(s) : IsDigit(s[i])

\* /^[A-Z]+_\d+$/ and /^[A-Z]+-\d+$/, the separator given
IsLettersThenDigits(s, separator) ==
  \E k \in 2..(Len(s) - 1) :
    /\ s[k] = separator
    /\ \A i \in 1..(k - 1) : IsUpper(s[i])
    /\ AllDigits(SubSeq(s, k + 1, Len(s)))

\* one of the four batchPatterns matches the value
IsBatchLike(s) ==
  \/ IsLettersThenDigits(s, "_")
  \/ IsLettersThenDigits(s, "-")
  \/ (Len(s) >= 2 /\ s[1] = "B" /\ AllDigits(Tail(s)))
  \/ (Len(s) >= 4 /\ toLowerCase(SubSeq(s, 1, 3)) = <<"l", "o", "t">>
        /\ AllDigits(SubSeq(s, 4, Len(s))))

findBatchIdField(headers, rows) ==
  LET batchLike(header) ==
        \E i \in 1..Len(ColumnStrings(rows, header)) :
          IsBatchLike(ColumnStrings(rows, header)[i])
  IN  IF FindByName(headers, batchIdPatterns) # Undefined
      THEN FindByName(headers, batchIdPatterns)
      ELSE FirstHeader(headers, batchLike)

\* dddd-dd-dd, a date of the ISO format
IsISODate(s) ==
  /\ Len(s) = 10
  /\ \A i \in {1, 2, 3, 4, 6, 7, 9, 10} : IsDigit(s[i])
  /\ s[5] = "-"
  /\ s[8] = "-"

\* !isNaN(Date.parse(s)): a date of the ISO format is parsed, a string
\* without a digit holds no date, and whether any other string is taken for
\* a date is left to the engine (lenient where it takes it)
ParsesAsDate(s, lenient) ==
  \/ IsISODate(s)
  \/ (lenient /\ \E i \in 1..Len(s) : IsDigit(s[i]))

\* the truthy values of the column are all dates, and there is one
AllDates(rows, header, lenient) ==
  LET values == Filter(ColumnValues(rows, header), BooleanOf)
  IN  /\ Len(values) > 0
      /\ \A i \in 1..Len(values) : ParsesAsDate(StringOf(values[i]), lenient)

findTimestampField(headers, rows, lenient) ==
  LET dates(header) == AllDates(rows, header, lenient)
  IN  IF FindByName(headers, timestampPatterns) # Undefined
      THEN FindByName(headers, timestampPatterns)
      ELSE FirstHeader(headers, dates)

\* new Set(values) of the strings of a column
UniqueValues(strings) == {strings[i] : i \in 1..Len(strings)}

\* uniqueValues.size > 1 && uniqueValues.size <= Math.min(10, values.length / 5)
\* and some value includes, in lower case, one of the terms
IsCategorical(strings, terms) ==
  /\ Len(strings) > 0
  /\ Cardinality(UniqueValues(strings)) > 1
  /\ Cardinality(UniqueValues(strings)) <= 10
  /\ 5 * Cardinality(UniqueValues(strings)) <= Len(strings)
  /\ \E value \in UniqueValues(strings) : \E term \in terms :
       Includes(toLowerCase(value), term)

processTerms ==
  {<<"p", "r", "o", "c", "e", "s", "s">>,
   <<"p", "r", "o", "d", "u", "c", "t", "i", "o", "n">>,
   <<"m", "a", "n", "u", "f", "a", "c", "t", "u", "r", "i", "n", "g">>,
   <<"c", "o", "m", "m", "e", "r", "c", "i", "a", "l">>,
   <<"d", "e", "v", "e", "l", "o", "p", "m", "e", "n", "t">>,
   <<"t", "e", "s", "t", "i", "n", "g">>}

findProcessTypeField(headers, rows) ==
  LET categorical(header) == IsCategorical(ColumnStrings(rows, header), processTerms)
  IN  IF FindByName(headers, processTypePatterns) # Undefined
      THEN FindByName(headers, processTypePatterns)
      ELSE FirstHeader(headers, categorical)

deptTerms ==
  {<<"d", "e", "p", "t">>,
   <<"l", "a", "b">>,
   <<"m", "a", "n", "u", "f", "a", "c", "t", "u", "r", "i", "n", "g">>,
   <<"q", "u", "a", "l", "i", "t", "y">>,
   <<"p", "r", "o", "d", "u", "c", "t", "i", "o", "n">>,
   <<"r", "&", "d">>,
   <<"r", "e", "s", "e", "a", "r", "c", "h">>}

findDepartmentField(headers, rows) ==
  LET categorical(header) == IsCategorical(ColumnStrings(rows, header), deptTerms)
  IN  IF FindByName(headers, departmentPatterns) # Undefined
      THEN FindByName(headers, departmentPatterns)
      ELSE FirstHeader(headers, categorical)

binaryPairs ==
  {<<<<"p", "a", "s", "s">>, <<"f", "a", "i", "l">>>>,
   <<<<"y", "e", "s">>, <<"n", "o">>>>,
   <<<<"t", "r", "u", "e">>, <<"f", "a", "l", "s", "e">>>>,
   <<<<"s", "u", "c", "c", "e", "s", "s">>, <<"f", "a", "i", "l", "u", "r", "e">>>>,
   <<<<"1">>, <<"0">>>>,
   <<<<"y">>, <<"n">>>>}

\* the column has two unique values in lower case, and for one of the
\* binaryPairs some value includes pos and some value includes neg
IsBinary(strings) ==
  LET unique == {toLowerCase(strings[i]) : i \in 1..Len(strings)}
  IN  /\ Cardinality(unique) = 2
      /\ \E pair \in binaryPairs :
           /\ \E value \in unique : Includes(value, pair[1])
           /\ \E value \in unique : Includes(value, pair[2])

findRFTStatusField(headers, rows) ==
  LET binary(header) == IsBinary(ColumnStrings(rows, header))
  IN  IF FindByName(headers, rftStatusPatterns) # Undefined
      THEN FindByName(headers, rftStatusPatterns)
      ELSE FirstHeader(headers, binary)

\* the values that detectFieldType takes for boolean-like
IsBooleanLike(v) ==
  \/ v.t = "boolean"
  \/ /\ v.t = "string"
     /\ v.s \in {<<"t", "r", "u", "e">>, <<"f", "a", "l", "s", "e">>,
                 <<"y", "e", "s">>, <<"n", "o">>, <<"y">>, <<"n">>}
  \/ (v.t = "number" /\ v.n \in {Num(1), Num(0)})

DefinedValues(rows, header) ==
  LET defined(v) == v.t \notin {"null", "undefined"}
  IN  Filter(ColumnValues(rows, header), defined)

\* the type of the values of the column that are not null or undefined
TypeOfValues(values, lenient) ==
  IF Len(values) = 0 THEN "unknown"
  ELSE IF \A i \in 1..Len(values) :
            \/ values[i].t = "number"
            \/ (values[i].t = "string" /\ ~IsNaN(NumberOf(values[i])))
       THEN "number"
  ELSE IF \A i \in 1..Len(values) : IsBooleanLike(values[i]) THEN "boolean"
  ELSE IF \A i \in 1..Len(values) : ParsesAsDate(StringOf(values[i]), lenient)
       THEN "date"
  ELSE "string"

detectFieldType(header, rows, lenient) ==
  TypeOfValues(DefinedValues(rows, header), lenient)

\* header.toLowerCase() includes one of the parts
IncludesOneOf(header, parts) ==
  \E part \in parts : Includes(toLowerCase(header), part)

findPossibleAlternateNames(header) ==
  IF IncludesOneOf(header, {<<"b", "a", "t", "c", "h">>, <<"l", "o", "t">>, <<"i", "d">>})
  THEN <<"batch_id", "lot_number", "batch_number", "id", "identifier">>
  ELSE IF IncludesOneOf(header, {<<"d", "a", "t", "e">>, <<"t", "i", "m", "e">>,
                                 <<"t", "i", "m", "e", "s", "t", "a", "m", "p">>})
  THEN <<"date", "timestamp", "time", "created_at", "processed_at">>
  ELSE IF IncludesOneOf(header, {<<"p", "r", "o", "c", "e", "s", "s">>,
                                 <<"t", "y", "p", "e">>,
                                 <<"c", "a", "t", "e", "g", "o", "r", "y">>})
  THEN <<"process_type", "process", "type", "category", "classification">>
  ELSE IF IncludesOneOf(header, {<<"d", "e", "p", "t">>,
                                 <<"d", "e", "p", "a", "r", "t", "m", "e", "n", "t">>,
                                 <<"d", "i", "v", "i", "s", "i", "o", "n">>})
  THEN <<"department", "dept", "division", "unit", "section">>
  ELSE IF IncludesOneOf(header, {<<"r", "f", "t">>, <<"s", "t", "a", "t", "u", "s">>,
                                 <<"r", "e", "s", "u", "l", "t">>,
                                 <<"p", "a", "s", "s">>, <<"f", "a", "i", "l">>})
  THEN <<"rft_status", "status", "result", "pass_fail", "outcome">>
  ELSE <<>>

\* the schema that detectSchema returns; lenient says how the engine's
\* Date.parse takes the strings that are no ISO dates
detectSchema(headers, rows, lenient) ==
  [batchIdField |-> findBatchIdField(headers, rows),
   timestampField |-> findTimestampField(headers, rows, lenient),
   processTypeField |-> findProcessTypeField(headers, rows),
   departmentField |-> findDepartmentField(headers, rows),
   rftStatusField |-> findRFTStatusField(headers, rows),
   detectedFields |->
     [i \in 1..Len(headers) |->
        [name |-> headers[i],
         type |-> detectFieldType(headers[i], rows, lenient),
         possibleAlternateNames |-> findPossibleAlternateNames(headers[i])]]]

(***************************************************************************)
(* detectSchema on bounded inputs                                          *)
(***************************************************************************)
MaxSchemaRows == 2

BatchIDHeader == <<"B", "a", "t", "c", "h", "I", "D">>

TimestampHeader == <<"T", "i", "m", "e", "s", "t", "a", "m", "p">>

DepartmentHeader == <<"D", "e", "p", "a", "r", "t", "m", "e", "n", "t">>

ProcessTypeHeader == <<"P", "r", "o", "c", "e", "s", "s", "T", "y", "p", "e">>

DurationHeader == <<"D", "u", "r", "a", "t", "i", "o", "n">>

TemperatureHeader == <<"T", "e", "m", "p", "e", "r", "a", "t", "u", "r", "e">>

PHHeader == <<"p", "H">>

SuccessHeader == <<"S", "u", "c", "c", "e", "s", "s">>

\* the headers of a sheet with a header row
NamedHeaders ==
  <<BatchIDHeader, TimestampHeader, DepartmentHeader, ProcessTypeHeader,
    DurationHeader, TemperatureHeader, PHHeader, SuccessHeader>>

\* generateDefaultHeaders(count), for count < 10
generateDefaultHeaders(count) ==
  [i \in 1..count |-> <<"C", "o", "l", "u", "m", "n">> \o NatToString(i)]

\* the row with the cells under the headers
RowOf(headers, cells) ==
  [header \in {headers[i] : i \in 1..Len(headers)} |->
     cells[CHOOSE i \in 1..Len(headers) : headers[i] = header]]

\* the rows of cells of the sheets: batch, timestamp, department, process
\* type, duration, temperature, pH, success
SchemaCells ==
  {<<Str(batch), Str(<<"2", "0", "2", "4", "-", "0", "1", "-", "1", "5">>),
     Str(department), Str(<<"C", "o", "m", "m", "e", "r", "c", "i", "a", "l">>),
     JSNum(Num(4)), temperature, JSNum(Num(7)), Bool(success)>> :
     batch \in {<<"B", "1", "0">>, <<"B", "1", "1">>},
     department \in {<<"Q", "u", "a", "l", "i", "t", "y">>,
                     <<"M", "a", "n", "u", "f", "a", "c", "t", "u", "r", "i", "n", "g">>},
     temperature \in {JSNum(Num(25)), Undefined},
     success \in BOOLEAN}

InitSchema ==
  /\ \E headers \in {NamedHeaders, generateDefaultHeaders(Len(NamedHeaders))} :
       \E cells \in SeqsUpTo(SchemaCells, MaxSchemaRows) :
         \E lenient \in BOOLEAN :
           /\ data = [i \in 1..Len(cells) |-> RowOf(headers, cells[i])]
           /\ config = [headers |-> headers, lenient |-> lenient]
  /\ options = << >>
  /\ xs = << >>
  /\ ys = << >>
  /\ engine = "insertion"
  /\ earlier = << >>
  /\ call = "none"
  /\ ret = "none"
  /\ processing = << >>
  /\ log = << >>
  /\ provider = "none"

DetectSchema ==
  Returns("detectSchema", detectSchema(config.headers, data, config.lenient))

NextSchema == DetectSchema

SpecSchema == InitSchema /\ [][NextSchema]_vars

\* the headers of the columns all of whose values are numbers, the role
\* columns aside
NumericParameterColumns ==
  {header \in {TemperatureHeader, PHHeader} :
     \A i \in 1..Len(data) : data[i][header].t = "number"}

\* C23: for rows with the columns BatchID, Timestamp, ProcessType,
\* Department, Success, Duration and numeric parameter columns, the schema
\* that detectSchema returns names these columns as batchIdField,
\* timestampField, processTypeField, departmentField, successField and
\* durationField, and its parameterFields hold every numeric parameter
\* column
SchemaNamesFieldRoles ==
  (call = "detectSchema" /\ config.headers = NamedHeaders /\ Len(data) > 0) =>
    /\ ret.batchIdField = Str(BatchIDHeader)
    /\ ret.timestampField = Str(TimestampHeader)
    /\ ret.processTypeField = Str(ProcessTypeHeader)
    /\ ret.departmentField = Str(DepartmentHeader)
    /\ "successField" \in DOMAIN ret
    /\ ret.successField = Str(SuccessHeader)
    /\ "durationField" \in DOMAIN ret
    /\ ret.durationField = Str(DurationHeader)
    /\ "parameterFields" \in DOMAIN ret
    /\ \A header \in NumericParameterColumns :
         \E i \in 1..Len(ret.parameterFields) : ret.parameterFields[i] = header

(***************************************************************************)
(* identifyTrends over series of every length from one value on, with      *)
(* fewer and with more values than periods                                 *)
(***************************************************************************)
MaxPeriodRecords == 7

MaxPeriods == 5

\* one record a day, in time order, with P1 one of two values
DailySeries ==
  UNION {{[i \in 1..n |-> [Timestamp |-> Day(i - 1), P1 |-> JSNum(Num(values[i]))]] :
            values \in [1..n -> {1, 2}]} : n \in 0..MaxPeriodRecords}

InitPeriods ==
  /\ data \in DailySeries
  /\ config \in {[NoConfig EXCEPT !.valueField = "P1", !.periods = periods] :
                   periods \in 3..MaxPeriods}
  /\ options = << >>
  /\ xs = << >>
  /\ ys = << >>
  /\ engine \in Engines
  /\ earlier = << >>
  /\ call = "none"
  /\ ret = "none"
  /\ processing = << >>
  /\ log = << >>
  /\ provider = "none"

NextPeriods == IdentifyTrends

SpecPeriods == InitPeriods /\ [][NextPeriods]_vars

\* the number of values in the periods before period i
RECURSIVE SizeBefore(_, _)
SizeBefore(periodStats, i) ==
  IF i <= 1 THEN 0
  ELSE SizeBefore(periodStats, i - 1) + periodStats[i - 1].sampleSize

\* C24: identifyTrends splits the values, in time order, into exactly
\* `periods` contiguous chunks that are disjoint and cover every value once;
\* all chunks except the last have the same size and the last one holds the
\* remainder as well, for every number of values from 1 on, also below
\* `periods`
PeriodsPartitionValues ==
  (call = "identifyTrends" /\ Len(data) >= 1) =>
    LET values == NumericValues(data, config.valueField)
        stats == ret.periods
    IN  /\ Len(stats) = config.periods
        /\ SizeBefore(stats, Len(stats) + 1) = Len(values)
        /\ \A i \in 1..Len(stats) :
             stats[i].average =
               calculateMean(SubSeq(values, SizeBefore(stats, i) + 1,
                                    SizeBefore(stats, i) + stats[i].sampleSize))
        /\ \A i, j \in 1..(Len(stats) - 1) : stats[i].sampleSize = stats[j].sampleSize
        /\ stats[Len(stats)].sampleSize >= stats[1].sampleSize

(***************************************************************************)
(* detectStepChangePattern over series of 9 values and more, with the      *)
(* default threshold and with a threshold that reports every change point  *)
(***************************************************************************)
MinChangeRecords == 9

MaxChangeRecords == 11

LongSeriesRecords == 40

\* the record of the i-th point of a series
SeriesPoint(i, value) == [Timestamp |-> JSNum(Num(i - 1)), P1 |-> JSNum(Num(value))]

\* every series of zeros and ones of MinChangeRecords to MaxChangeRecords
\* points, and the long series with one step from 0 to 1
ChangeSeries ==
  UNION {{[i \in 1..n |-> SeriesPoint(i, values[i])] : values \in [1..n -> {0, 1}]} :
           n \in MinChangeRecords..MaxChangeRecords}
  \cup {[i \in 1..LongSeriesRecords |-> SeriesPoint(i, IF i <= step THEN 0 ELSE 1)] :
          step \in 1..(LongSeriesRecords - 1)}

InitChangePoint ==
  /\ data \in ChangeSeries
  /\ config = [NoConfig EXCEPT !.parameterFields = <<"P1">>]
  /\ options \in {<< >>, [significanceThreshold |-> JSNum(Num(1))]}
  /\ xs = << >>
  /\ ys = << >>
  /\ engine = "insertion"
  /\ earlier = << >>
  /\ call = "none"
  /\ ret = "none"
  /\ processing = << >>
  /\ log = << >>
  /\ provider = "none"

NextChangePoint == DetectStepChangePattern

SpecChangePoint == InitChangePoint /\ [][NextChangePoint]_vars

\* the split points that leave max(3, floor(n / 10)) values on either side
SplitPoints(n) ==
  (IF n \div 10 > 3 THEN n \div 10 ELSE 3)..(n - (IF n \div 10 > 3 THEN n \div 10 ELSE 3))

StableTrendNotSignificant ==
  (call = "identifyTrends" /\ ret.trend = "stable") => ~ret.significant

\* a coefficient of exactly 1 or -1
IsPerfect(correlation) == correlation[1] # 0 /\ correlation[2] = Num(1)

\* C27: with the default options analyzeCorrelations marks every pair of
\* parameters whose coefficient is exactly 1 or -1 as significant, for every
\* number n >= 3 of complete pairs: a stronger correlation never has the
\* larger p-value
PerfectCorrelationSignificant ==
  (call = "analyzeCorrelations" /\ options = << >>) =>
    \A i \in 1..Len(ret) :
      (ret[i].sampleSize >= 3 /\ IsPerfect(ret[i].correlationCoefficient))
        => ret[i].significant

(***************************************************************************)
(* The ranking of the dashboard over two process types, for success values *)
(* and success fields of every type                                        *)
(***************************************************************************)
RecordsPerType == 3

Fail == Str(<<"F", "a", "i", "l">>)

\* what the success field holds: booleans, strings or numbers
SuccessAlphabets ==
  {{Bool(TRUE), Bool(FALSE)}, {Pass, Fail}, {JSNum(Num(1)), JSNum(Num(0))}}

\* RecordsPerType records of process type "A", then as many of type "B"
RankingDatasets ==
  UNION {{[i \in 1..(2 * RecordsPerType) |->
             [ProcessType |-> (IF i <= RecordsPerType THEN ProcessTypeA ELSE ProcessTypeB),
              Success |-> success[i],
              Duration |-> JSNum(Num(10))]] :
            success \in [1..(2 * RecordsPerType) -> A]} : A \in SuccessAlphabets}

InitRanking ==
  /\ data \in RankingDatasets
  /\ config \in {[NoConfig EXCEPT !.successValue = successValue] :
                   successValue \in {Bool(TRUE), Bool(FALSE), Pass, JSNum(Num(1))}}
  /\ options = << >>
  /\ xs = << >>
  /\ ys = << >>
  /\ engine = "insertion"
  /\ earlier = << >>
  /\ call = "none"
  /\ ret = "none"
  /\ processing = << >>
  /\ log = << >>
  /\ provider = "none"

NextRanking == GenerateDashboardAnalytics

SpecRanking == InitRanking /\ [][NextRanking]_vars

\* C28: in the processPerformance list of the dashboard a process type with
\* the smaller rank never has the smaller right-first-time rate, whatever the
\* successValue (true, false, a string, a number) and whatever the type of
\* the values of the success field
RankingAgreesWithRates ==
  (call = "generateDashboardAnalytics") =>
    \A a, b \in 1..Len(ret.processPerformance) :
      ret.processPerformance[a].rank < ret.processPerformance[b].rank
        => Ge(ret.processPerformance[a].rft.rate, ret.processPerformance[b].rft.rate)

(***************************************************************************)
(* DataProcessingManager: processFile and processData with the callbacks   *)
(* of the caller.  A callback is given or not, and a given one returns or  *)
(* throws: options maps the name of every callback that is given to when   *)
(* it throws, onProgress to the set of stages at which it throws and       *)
(* onComplete and onError to whether they throw.                           *)
(***************************************************************************)
OnProgress(progress, stage) ==
  [callback |-> "onProgress", progress |-> progress, stage |-> stage]

OnComplete(result) == [callback |-> "onComplete", result |-> result]

OnError(error) == [callback |-> "onError", error |-> error]

\* a step of a try block that raises, and the await of the parser
Raise(error) == [callback |-> "raise", error |-> error]

Await == [callback |-> "await"]

ThrowsOn(callbacks, invocation) ==
  IF invocation.callback = "onProgress"
  THEN invocation.stage \in callbacks.onProgress
  ELSE callbacks[invocation.callback]

\* catch (error): options.onError(error) if it is given, else throw error
Catch(callbacks, invoked, error) ==
  IF "onError" \in DOMAIN callbacks
  THEN [invoked |-> Append(invoked, OnError(error)),
        outcome |-> IF callbacks.onError THEN "raised" ELSE "returned"]
  ELSE [invoked |-> invoked, outcome |-> "raised"]

\* the steps of a try block in order: a callback that is not given is
\* skipped, a step that raises and a callback that throws lead to the catch
\* clause, and at an await the call is suspended
RECURSIVE RunTry(_, _, _)
RunTry(steps, callbacks, invoked) ==
  IF steps = << >> THEN [invoked |-> invoked, outcome |-> "returned"]
  ELSE IF Head(steps).callback = "raise"
  THEN Catch(callbacks, invoked, Head(steps).error)
  ELSE IF Head(steps).callback = "await"
  THEN [invoked |-> invoked, outcome |-> "awaiting"]
  ELSE IF Head(steps).callback \notin DOMAIN callbacks
  THEN RunTry(Tail(steps), callbacks, invoked)
  ELSE IF ThrowsOn(callbacks, Head(steps))
  THEN Catch(callbacks, Append(invoked, Head(steps)), Head(steps).callback)
  ELSE RunTry(Tail(steps), callbacks, Append(invoked, Head(steps)))

\* new PatternAnalyzer(): the constructor is called without options
PatternAnalyzerOptions == Undefined

\* patternAnalyzer.analyzePatterns(data, schema): the destructuring of
\* this.options raises when the options are undefined, and the analysis
\* raises when the options name no batch id field or no row holds one
analyzePatterns(this, rows) ==
  IF this = Undefined THEN << Raise("TypeError") >>
  ELSE IF \/ ~BooleanOf(this.batchIdField)
          \/ \A i \in 1..Len(rows) : ~BooleanOf(Get(rows[i], StringOf(this.batchIdField)))
  THEN << Raise("Error") >>
  ELSE << >>

\* the steps from the patterns on: the patterns are analysed when the
\* schema names a batch id field (and the data has rows, where required)
CompletionSteps(rows, schema, analysed) ==
  (IF analysed THEN analyzePatterns(PatternAnalyzerOptions, rows) ELSE << >>)
  \o << OnProgress(Num(100), "complete"),
        OnComplete([data |-> rows, schema |-> schema]) >>

\* this.excelParser.detectSchema(data): the records are bound to headers
\* and rows is undefined, so the first rows.map raises; without a record no
\* step reads rows
StepsFromSchema(rows, schema) ==
  << OnProgress(Num(50), "analyzing") >>
  \o CompletionSteps(rows, schema, BooleanOf(schema.batchIdField))

ProcessDataSteps(rows) ==
  << OnProgress(Num(0), "analyzing") >>
  \o (IF Len(rows) > 0 THEN << Raise("TypeError") >>
      ELSE StepsFromSchema(rows, detectSchema(<< >>, << >>, FALSE)))

\* processFile up to the await: the call of parseExcelFile raises when the
\* parser has no such method
ProcessFileSteps(parserHasMethod) ==
  << OnProgress(Num(0), "parsing"),
     IF parserHasMethod THEN Await ELSE Raise("TypeError") >>

\* the onProgress handed to the parser
ParserProgressSteps(progress) == << OnProgress(Mul(progress, <<7, 10>>), "parsing") >>

\* processFile after the await
ResumedSteps(rows, schema) ==
  << OnProgress(Num(70), "analyzing") >>
  \o CompletionSteps(rows, schema, BooleanOf(schema.batchIdField) /\ Len(rows) > 0)

\* the ProcessingResult schema of a parsed file, with or without a batch id
\* field
ParsedSchema(batchIdField) ==
  [batchIdField |-> batchIdField,
   processTypeField |-> Str(ProcessTypeHeader),
   timestampField |-> Null,
   departmentField |-> Null,
   successField |-> Null,
   durationField |-> Null,
   parameterFields |-> << >>]

FileRows == << [BatchID |-> Str(<<"B", "1">>), ProcessType |-> ProcessTypeA] >>

\* what parseExcelFile resolves with: no row or one, and a schema
ParseResults ==
  {[data |-> rows, schema |-> ParsedSchema(batchIdField)] :
     rows \in {<< >>, FileRows}, batchIdField \in {Null, Str(BatchIDHeader)}}

\* the progress the parser reports, in percent
ParserProgressValues == {Num(50)}

MaxProgressReports == 1

(***************************************************************************)
(* DashboardProvider: the state of its useState hooks and the callbacks it *)
(* hands to processFile, none of which throws                              *)
(***************************************************************************)
NoFilters ==
  [dateRange |-> [startDate |-> Null, endDate |-> Null],
   processTypes |-> << >>,
   departments |-> << >>]

InitialProvider ==
  [rawData |-> Null,
   isProcessing |-> FALSE,
   processingProgress |-> Num(0),
   processingStage |-> "idle",
   processingError |-> Null,
   schema |-> Null,
   filters |-> NoFilters]

ProviderCallbacks == [onProgress |-> {}, onComplete |-> FALSE, onError |-> FALSE]

\* the state after one callback of handleFileUpload has run
Apply(state, invocation) ==
  CASE invocation.callback = "onProgress" ->
         [state EXCEPT !.processingProgress = invocation.progress,
                       !.processingStage = invocation.stage]
    [] invocation.callback = "onComplete" ->
         [state EXCEPT !.rawData = invocation.result.data,
                       !.schema = invocation.result.schema,
                       !.filters = (IF BooleanOf(invocation.result.schema.processTypeField)
                                    THEN NoFilters ELSE @),
                       !.processingStage = "complete",
                       !.isProcessing = FALSE]
    [] invocation.callback = "onError" ->
         [state EXCEPT !.processingError = invocation.error,
                       !.processingStage = "error",
                       !.isProcessing = FALSE]

RECURSIVE ApplyAll(_, _)
ApplyAll(state, invoked) ==
  IF invoked = << >> THEN state
  ELSE ApplyAll(Apply(state, Head(invoked)), Tail(invoked))

\* the first statements of handleFileUpload
UploadStarted(state) ==
  [state EXCEPT !.isProcessing = TRUE,
                !.processingStage = "parsing",
                !.processingProgress = Num(0),
                !.processingError = Null]

resetData(state) ==
  [state EXCEPT !.rawData = Null,
                !.schema = Null,
                !.processingStage = "idle",
                !.processingProgress = Num(0),
                !.processingError = Null,
                !.filters = NoFilters]

(***************************************************************************)
(* The calls of processFile and processData, the parser's progress reports *)
(* and the settling of its promise, as steps                               *)
(***************************************************************************)
\* a processFile call: whose callbacks it has, whether it awaits the
\* parser, and the progress reports of the parser so far
FileCall(owner, callbacks, outcome) ==
  [owner |-> owner,
   callbacks |-> callbacks,
   state |-> (IF outcome = "awaiting" THEN "awaiting" ELSE "settled"),
   reports |-> 0]

\* the callbacks of a caller are recorded in invocation order, those of the
\* provider set its state
Deliver(owner, invoked) ==
  IF owner = "provider"
  THEN provider' = ApplyAll(provider, invoked) /\ UNCHANGED log
  ELSE log' = log \o invoked /\ UNCHANGED provider

ProcessData ==
  /\ call = "none"
  /\ call' = "processData"
  /\ ret' = RunTry(ProcessDataSteps(data), options, << >>).outcome
  /\ log' = RunTry(ProcessDataSteps(data), options, << >>).invoked
  /\ UNCHANGED <<data, config, options, xs, ys, engine, earlier, processing, provider>>

ProcessFileWith(run) ==
  /\ call = "none"
  /\ call' = "processFile"
  /\ ret' = "promise"
  /\ log' = run.invoked
  /\ processing' = << FileCall("caller", options, run.outcome) >>
  /\ UNCHANGED <<data, config, options, xs, ys, engine, earlier, provider>>

ProcessFile == ProcessFileWith(RunTry(ProcessFileSteps(config.parseExcelFile), options, << >>))

ParserReports ==
  \E i \in 1..Len(processing), progress \in ParserProgressValues :
    /\ processing[i].state = "awaiting"
    /\ processing[i].reports < MaxProgressReports
    /\ Deliver(processing[i].owner,
               RunTry(ParserProgressSteps(progress), processing[i].callbacks, << >>).invoked)
    /\ processing' = [processing EXCEPT ![i].reports = @ + 1]
    /\ UNCHANGED <<data, config, options, xs, ys, engine, earlier, call, ret>>

ParserResolves ==
  \E i \in 1..Len(processing), result \in ParseResults :
    /\ processing[i].state = "awaiting"
    /\ Deliver(processing[i].owner,
               RunTry(ResumedSteps(result.data, result.schema),
                      processing[i].callbacks, << >>).invoked)
    /\ processing' = [processing EXCEPT ![i].state = "settled"]
    /\ UNCHANGED <<data, config, options, xs, ys, engine, earlier, call, ret>>

ParserRejects ==
  \E i \in 1..Len(processing) :
    /\ processing[i].state = "awaiting"
    /\ Deliver(processing[i].owner,
               Catch(processing[i].callbacks, << >>, "Error").invoked)
    /\ processing' = [processing EXCEPT ![i].state = "settled"]
    /\ UNCHANGED <<data, config, options, xs, ys, engine, earlier, call, ret>>

(***************************************************************************)
(* One call of processData or processFile with onComplete and onError      *)
(* given, every one of the callbacks returning or throwing                 *)
(***************************************************************************)
ProcessingStages == {"parsing", "analyzing", "complete"}

\* onComplete and onError are given; onProgress is given or not
CallbackOptions ==
  {[onComplete |-> c, onError |-> e] : c \in BOOLEAN, e \in BOOLEAN}
  \cup {[onProgress |-> p, onComplete |-> c, onError |-> e] :
          p \in SUBSET ProcessingStages, c \in BOOLEAN, e \in BOOLEAN}

InitManager ==
  /\ data \in {<< >>, FileRows}
  /\ config \in {[parseExcelFile |-> hasMethod] : hasMethod \in BOOLEAN}
  /\ options \in CallbackOptions
  /\ xs = << >>
  /\ ys = << >>
  /\ engine = "insertion"
  /\ earlier = << >>
  /\ call = "none"
  /\ ret = "none"
  /\ processing = << >>
  /\ log = << >>
  /\ provider = "none"

NextManager ==
  ProcessData \/ ProcessFile \/ ParserReports \/ ParserResolves \/ ParserRejects

SpecManager == InitManager /\ [][NextManager]_vars

IsTerminal(invocation) == invocation.callback \in {"onComplete", "onError"}

IsCompleteProgress(invocation) ==
  invocation.callback = "onProgress" /\ invocation.stage = "complete"

\* C29: in a call of processFile or processData with onComplete and onError
\* given, at most one of the two is invoked, and at most once; onError is
\* never invoked after onComplete, also when a callback throws; and
\* onProgress(100, 'complete') is reported before onComplete and never
\* before an onError
TerminalCallbackOnce ==
  /\ Cardinality({i \in 1..Len(log) : IsTerminal(log[i])}) <= 1
  /\ \A i, j \in 1..Len(log) :
       (i < j /\ log[i].callback = "onComplete") => log[j].callback # "onError"
  /\ \A j \in 1..Len(log) :
       (log[j].callback = "onComplete" /\ "onProgress" \in DOMAIN options)
         => \E i \in 1..(j - 1) : IsCompleteProgress(log[i])
  /\ \A i, j \in 1..Len(log) :
       (i < j /\ IsCompleteProgress(log[i])) => log[j].callback # "onError"

(***************************************************************************)
(* The DashboardProvider under uploads and resets in every order, the      *)
(* uploads in flight while other handlers run.  There are two providers:   *)
(* the one of dashboard-context.tsx hands the file to processFile, the     *)
(* other one simulates the processing with two timeouts and loads mock     *)
(* data; it has no schema state, which is kept null here.                  *)
(***************************************************************************)
MaxUploads == 2

ProviderVariants == {"processFile", "timeouts"}

InitProvider ==
  /\ data = << >>
  /\ config \in {[parseExcelFile |-> hasMethod, variant |-> variant] :
                   hasMethod \in BOOLEAN, variant \in ProviderVariants}
  /\ options = << >>
  /\ xs = << >>
  /\ ys = << >>
  /\ engine = "insertion"
  /\ earlier = << >>
  /\ call = "none"
  /\ ret = "none"
  /\ processing = << >>
  /\ log = << >>
  /\ provider = InitialProvider

\* handleFileUpload(file): the state is set, processFile runs up to its
\* await with the callbacks of the provider, and the promise is dropped
HandleFileUploadWith(run) ==
  /\ config.variant = "processFile"
  /\ Len(processing) < MaxUploads
  /\ call' = "handleFileUpload"
  /\ provider' = ApplyAll(UploadStarted(provider), run.invoked)
  /\ processing' = Append(processing, FileCall("provider", ProviderCallbacks, run.outcome))
  /\ UNCHANGED <<data, config, options, xs, ys, engine, earlier, ret, log>>

HandleFileUpload ==
  HandleFileUploadWith(RunTry(ProcessFileSteps(config.parseExcelFile),
                              ProviderCallbacks, << >>))

\* the mock data of the simulated processing
MockData ==
  << [id |-> JSNum(Num(1)), process |-> Str(<<"A">>), success |-> Bool(TRUE),
      duration |-> JSNum(<<43, 10>>)],
     [id |-> JSNum(Num(2)), process |-> Str(<<"B">>), success |-> Bool(FALSE),
      duration |-> JSNum(<<57, 10>>)],
     [id |-> JSNum(Num(3)), process |-> Str(<<"C">>), success |-> Bool(TRUE),
      duration |-> JSNum(<<39, 10>>)] >>

\* handleFileUpload(file) of the simulating provider: the state is set and
\* the first timeout is scheduled
SimulateFileUpload ==
  /\ config.variant = "timeouts"
  /\ Len(processing) < MaxUploads
  /\ call' = "handleFileUpload"
  /\ provider' = UploadStarted(provider)
  /\ processing' = Append(processing, [owner |-> "provider", state |-> "timing", reports |-> 0])
  /\ UNCHANGED <<data, config, options, xs, ys, engine, earlier, ret, log>>

\* the state after the first and after the second timeout of an upload
AfterTimeout(state, first) ==
  IF first
  THEN [state EXCEPT !.processingProgress = Num(50),
                     !.processingStage = "analyzing"]
  ELSE [state EXCEPT !.processingProgress = Num(100),
                     !.processingStage = "complete",
                     !.isProcessing = FALSE,
                     !.rawData = MockData]

\* a timeout of a simulated upload fires; the first one schedules the second
TimeoutFires ==
  \E i \in 1..Len(processing) :
    /\ processing[i].state = "timing"
    /\ provider' = AfterTimeout(provider, processing[i].reports = 0)
    /\ processing' = [processing EXCEPT
                        ![i].reports = @ + 1,
                        ![i].state = IF processing[i].reports = 0 THEN "timing" ELSE "settled"]
    /\ UNCHANGED <<data, config, options, xs, ys, engine, earlier, call, ret, log>>

ResetData ==
  /\ call' = "resetData"
  /\ provider' = resetData(provider)
  /\ UNCHANGED <<data, config, options, xs, ys, engine, earlier, ret, log, processing>>

NextProvider ==
  \/ HandleFileUpload
  \/ SimulateFileUpload
  \/ TimeoutFires
  \/ ResetData
  \/ ParserReports
  \/ ParserResolves
  \/ ParserRejects

SpecProvider == InitProvider /\ [][NextProvider]_vars

\* C30: from a resetData call to the next handleFileUpload call rawData and
\* schema are null, processingStage is 'idle' and isProcessing is false, in
\* every interleaving, also when an upload started before the reset reports
\* progress or completes after it
ResetHoldsUntilUpload ==
  (call = "resetData") =>
    /\ provider.rawData = Null
    /\ provider.schema = Null
    /\ provider.processingStage = "idle"
    /\ ~provider.isProcessing
====
